---- MODULE Spec2Model ----
(***************************************************************************)
(* Fishing_Line_Material_Properties_Analysis: the per-file analysis        *)
(* pipeline of MaterialAnalyzer (load_file, _find_yield_point,             *)
(* _calculate_material_properties) and the command handlers of __main__.   *)
(*                                                                         *)
(* Units.  Stroke is counted in units of 0.1 inch (2.54 mm), so a gauge    *)
(* length of n inches (n * 25.4 mm) is the integer 10 * n.  The Strain     *)
(* column holds the numerator (Stroke - min Stroke); the strain itself is  *)
(* that numerator divided by meta.length.  The Stress column holds the     *)
(* numerator (Force - min Force); the stress itself is that numerator      *)
(* divided by the cross-section area.  A yield strain is held in units of  *)
(* 1 / (100 * length): the knee k is 100 * k, 0.7 * max_strain is          *)
(* 70 * max.  Floating-point rounding is not modelled.                     *)
(***************************************************************************)
EXTENDS Integers, Sequences, FiniteSets, TLC

VARIABLES
    pc,        \* position in load_file / _find_yield_point / _calculate_material_properties
    file,      \* the input given to load_file (or the frame given to a direct call)
    df,        \* the cleaned data frame: rows with index label, Force, Stroke, Stress, Strain
    knee,      \* what KneeLocator produced: "unset", "none", "raise" or a strain numerator
    rolling,   \* what the rolling-modulus tier produced: "unset", "none", "raise" or a strain numerator
    raised,    \* the places of _find_yield_point where an exception was raised
    yp,        \* the list _find_yield_point returned: [tier, value]
    fit,       \* the modulus fit window: [branch, rows, attempted]
    meta,      \* df.meta after _calculate_material_properties
    err,       \* the ValueError load_file raised, "none" if none
    cpc,       \* position in main / the command handlers
    args,      \* the parsed command line
    fsys,      \* the file system the handlers see
    cur,       \* loop position of the running handler
    data_list, \* the frames the running handler has loaded
    group_results, \* handle_batch_command's group_results
    outfiles,  \* the result files written under the output directory
    loaded,    \* the files for which load_file has returned a frame
    status,    \* main's return value, "none" while running
    path,      \* the file path given to _parse_metadata
    parsed,    \* what _parse_metadata returned, or that it raised
    specimens, \* the list given to calculate_summary_stats
    stats,     \* the dictionary calculate_summary_stats returned
    run,       \* which load_file call of one analyzer is running
    first,     \* what the analyzer's first load_file call gave
    oracle,    \* the installed libraries: the LAPACK build and KneeLocator's choice
    calls,     \* the result lists given so far to _save_individual_results_csv
    threads,   \* the load_file calls running concurrently on one analyzer
    label      \* what _extract_length_from_path returned

pvars == <<pc, file, df, knee, rolling, raised, yp, fit, meta, err>>
cvars == <<cpc, args, fsys, cur, data_list, group_results, outfiles, loaded, status>>
uvars == <<path, parsed, specimens, stats>>
rvars == <<run, first, oracle>>
xvars == <<calls, threads, label>>
vars == <<pc, file, df, knee, rolling, raised, yp, fit, meta, err,
          cpc, args, fsys, cur, data_list, group_results, outfiles, loaded, status,
          path, parsed, specimens, stats, run, first, oracle,
          calls, threads, label>>

(***************************************************************************)
(* Bounds of the input family.                                             *)
(***************************************************************************)
MaxShort == 12   \* short curves: peak label 1..MaxShort
MinLong == 45    \* long curves: peak label MinLong..MaxLong
MaxLong == 46
MaxTail == 3     \* rows recorded after the stress peak
TailStep == 35   \* stroke per row after the peak (the specimen has failed)
KneeStride == 5  \* KneeLocator outcomes: every KneeStride-th sample of the window

Min2(a, b) == IF a < b THEN a ELSE b
Max2(a, b) == IF a > b THEN a ELSE b
MaxOf(S) == CHOOSE x \in S : \A y \in S : y <= x
MinOf(S) == CHOOSE x \in S : \A y \in S : x <= y

RECURSIVE Gcd(_, _)
Gcd(a, b) == IF b = 0 THEN a ELSE Gcd(b, a % b)
Abs(x) == IF x < 0 THEN -x ELSE x

RECURSIVE SumSeq(_)
SumSeq(s) == IF s = <<>> THEN 0 ELSE Head(s) + SumSeq(Tail(s))

\* Python's s[a:b] on a sequence, positions counted from zero.
Slice(s, a, b) == SubSeq(s, a + 1, Min2(b, Len(s)))

(***************************************************************************)
(* _parse_metadata and _parse_length, lines 113-180.  A string is a        *)
(* sequence of one-character strings.  A length is held in units of        *)
(* 0.1 mm: n inches are 254 * n, the default 254.0 mm is 2540.             *)
(***************************************************************************)
Digits == <<"0", "1", "2", "3", "4", "5", "6", "7", "8", "9">>
IsDigit(c) == \E i \in DOMAIN Digits : Digits[i] = c
DigitValue(c) == (CHOOSE i \in DOMAIN Digits : Digits[i] = c) - 1

\* Position of the first occurrence of sep in s, 0 if there is none.
Find(s, sep) ==
    LET hits == {i \in 1..(Len(s) - Len(sep) + 1) :
                    SubSeq(s, i, i + Len(sep) - 1) = sep}
    IN  IF hits = {} THEN 0 ELSE MinOf(hits)

\* str.split(sep): cut at the occurrences of sep found from left to right.
RECURSIVE Split(_, _)
Split(s, sep) ==
    LET i == Find(s, sep)
    IN  IF i = 0 THEN <<s>>
        ELSE <<SubSeq(s, 1, i - 1)>> \o Split(SubSeq(s, i + Len(sep), Len(s)), sep)

RECURSIVE Concat(_)
Concat(ss) == IF ss = <<>> THEN <<>> ELSE Head(ss) \o Concat(Tail(ss))

RECURSIVE Join(_, _)
Join(ss, sep) ==
    IF ss = <<>> THEN <<>>
    ELSE IF Len(ss) = 1 THEN ss[1]
    ELSE ss[1] \o sep \o Join(Tail(ss), sep)

\* str.replace(old, ""): the occurrences found from left to right go.
Replace(s, old) == Concat(Split(s, old))

RECURSIVE DigitsValue(_)
DigitsValue(s) ==
    IF s = <<>> THEN 0
    ELSE 10 * DigitsValue(SubSeq(s, 1, Len(s) - 1)) + DigitValue(s[Len(s)])

AllDigits(s) == s # <<>> /\ \A i \in DOMAIN s : IsDigit(s[i])

\* int(s) for a string without blanks and underscores: an optional sign and
\* at least one digit, anything else raises ValueError (ok = FALSE).
PyInt(s) ==
    IF AllDigits(s) THEN [ok |-> TRUE, val |-> DigitsValue(s)]
    ELSE IF s # <<>> /\ s[1] \in {"-", "+"} /\ AllDigits(Tail(s))
         THEN [ok |-> TRUE,
               val |-> IF s[1] = "-" THEN 0 - DigitsValue(Tail(s))
                       ELSE DigitsValue(Tail(s))]
         ELSE [ok |-> FALSE, val |-> 0]

LastSlash(s) == MaxOf({0} \cup {i \in DOMAIN s : s[i] = "/"})

\* os.path.basename / os.path.dirname (posixpath).
Basename(s) == SubSeq(s, LastSlash(s) + 1, Len(s))
Dirname(s) ==
    LET head == SubSeq(s, 1, LastSlash(s))
        solid == {i \in DOMAIN head : head[i] # "/"}
    IN  IF solid = {} THEN head ELSE SubSeq(head, 1, MaxOf(solid))

In == <<"i", "n">>
Crimp == <<"c", "r", "i", "m", "p">>
DefaultSize == 21
DefaultLength == 2540
MmPerInch == 254

HasIn(part) == Find(part, In) # 0
HasDigit(part) == \E i \in DOMAIN part : IsDigit(part[i])

\* Lines 169-180.
RECURSIVE parse_length(_)
parse_length(dname_parts) ==
    IF dname_parts = <<>> THEN DefaultLength
    ELSE LET part == Head(dname_parts)
             length_inches == PyInt(Replace(part, In))
         IN  IF HasIn(part) /\ HasDigit(part) /\ length_inches.ok
             THEN length_inches.val * MmPerInch
             ELSE parse_length(Tail(dname_parts))

\* Mutant of parse_metadata: the construction is read from the first part
\* of the middle segment.
parse_metadata_tag(filepath) ==
    LET slugs == Split(Basename(filepath), <<"-", "-">>)
        size_part == Split(slugs[2], <<"-">>)
        named == Len(slugs) >= 3 /\ Len(size_part) >= 3
        size == IF named THEN PyInt(size_part[3])
                ELSE [ok |-> TRUE, val |-> DefaultSize]
        run_num == PyInt(Split(slugs[3], <<".">>)[1])
    IN  IF ~size.ok THEN [kind |-> "raise"]
        ELSE [kind |-> "meta",
              size |-> size.val,
              ctype |-> IF named THEN size_part[1] ELSE Crimp,
              test_run |-> IF Len(slugs) >= 3 /\ run_num.ok THEN run_num.val ELSE 0,
              length |-> parse_length(Split(Dirname(filepath), <<"/">>))]

\* Lines 122-157; int(size_part[2]) is outside any try.
parse_metadata(filepath) ==
    LET fname == Basename(filepath)
        dname == Dirname(filepath)
        slugs == Split(fname, <<"-", "-">>)
        size_part == Split(slugs[2], <<"-">>)
        named == Len(slugs) >= 3 /\ Len(size_part) >= 3
        size == IF named THEN PyInt(size_part[3])
                ELSE [ok |-> TRUE, val |-> DefaultSize]
        run_num == PyInt(Split(slugs[3], <<".">>)[1])
    IN  IF ~size.ok THEN [kind |-> "raise"]
        ELSE [kind |-> "meta",
              size |-> size.val,
              ctype |-> IF named THEN size_part[2] ELSE Crimp,
              test_run |-> IF Len(slugs) >= 3 /\ run_num.ok THEN run_num.val ELSE 0,
              length |-> parse_length(Split(dname, <<"/">>))]

\* str(n) for n >= 0.
RECURSIVE Decimal(_)
Decimal(n) ==
    IF n < 10 THEN <<Digits[n + 1]>>
    ELSE Decimal(n \div 10) \o <<Digits[(n % 10) + 1]>>

(***************************************************************************)
(* The input family: force/stroke recordings of a tensile test.  The force *)
(* rises with slope a up to 70% of the way to the peak, then with slope c  *)
(* up to the peak at row p, and falls by one per row afterwards; the       *)
(* stroke grows by s per row up to the peak and by TailStep afterwards.    *)
(* Row i of the file (after the units row) carries index label i.          *)
(***************************************************************************)
Shapes == {<<0, 0>>, <<2, 2>>, <<3, 1>>}
StrokeSteps == {0, 1}
GaugeLengths == {50, 200}     \* 5in and 20in, in units of 0.1 inch
PeakLabels == (1..MaxShort) \cup (MinLong..MaxLong)

CurveForce(i, p, shape) ==
    LET b == (7 * p) \div 10
    IN  shape[1] * Min2(i, b) + shape[2] * (Min2(i, p) - Min2(i, b))
          - Max2(i - p, 0)

CurveStroke(i, p, s) == s * Min2(i, p) + TailStep * Max2(i - p, 0)

\* Force is missing in the first kF rows, Stroke in the kS rows after them
\* (ForceNa / StrokeNa are the isna() masks after pd.to_numeric).
RawRows(p, tail, shape, s, kF, kS) ==
    [i \in 1..(p + tail) |->
        [Force  |-> IF i <= kF THEN 0 ELSE CurveForce(i, p, shape),
         ForceNa |-> i <= kF,
         Stroke |-> IF i > kF /\ i <= kF + kS THEN 0 ELSE CurveStroke(i, p, s),
         StrokeNa |-> i > kF /\ i <= kF + kS]]

NanPatterns(n) ==
    {k \in {<<0, 0>>, <<1, 0>>, <<n \div 2, 0>>, <<n \div 2 + 1, 0>>,
            <<n \div 2, (n - 1) \div 2>>, <<n \div 2, n \div 2>>,
            <<0, n \div 2 + 1>>} :
        k[1] + k[2] <= n}

\* A recording is a text file: in the layout "preamble" a line of the test
\* machine, the line of column names, the line of units and the data lines;
\* in the layout "header_first" the same without the first line.  rows holds
\* the data lines.
\* The path of a recording: d/<inches>in/t--l-l-<size>--1.c, a shortened
\* data/group_1/5in/test--line-crimp-21--1.csv.
SizedName(size) ==
    Join(<<<<"t">>, Join(<<<<"l">>, <<"l">>, Decimal(size)>>, <<"-">>),
           <<"1", ".", "c">>>>, <<"-", "-">>)
InchDir(inches) ==
    (IF inches < 0 THEN <<"-">> ELSE <<>>) \o Decimal(Abs(inches)) \o In
FilePath(inches, size) ==
    Join(<<<<"d">>, InchDir(inches), SizedName(size)>>, <<"/">>)

\* A test may patch _parse_metadata, or build df.meta itself; mock then holds
\* the record it supplies.
NoMock == [set |-> FALSE]
Mock(size, length) ==
    [set |-> TRUE,
     meta |-> [kind |-> "meta", size |-> size, ctype |-> Crimp, test_run |-> 0,
               length |-> length]]

CurveFile(p, tail, shape, s, len, k) ==
    [entry |-> "load_file", kind |-> "ok", path |-> FilePath(len \div 10, DefaultSize),
     mock |-> NoMock, layout |-> "preamble",
     rows |-> RawRows(p, tail, shape, s, k[1], k[2])]

\* Short recordings with every pattern of missing values, long clean
\* recordings of every shape, and long recordings with missing values.
ShortFiles ==
    UNION {{CurveFile(p, tail, shape, s, len, k) : k \in NanPatterns(p + tail)} :
            p \in 1..MaxShort, tail \in {0, 1}, shape \in Shapes,
            s \in StrokeSteps, len \in GaugeLengths}

LongFiles ==
    {CurveFile(p, tail, shape, s, len, <<0, 0>>) :
        p \in MinLong..MaxLong, tail \in 0..MaxTail, shape \in Shapes,
        s \in StrokeSteps, len \in GaugeLengths}

LongNanFiles ==
    UNION {{CurveFile(p, 0, shape, 1, len, k) : k \in NanPatterns(p)} :
            p \in MinLong..MaxLong, shape \in Shapes \ {<<0, 0>>},
            len \in GaugeLengths}

CurveFiles == ShortFiles \cup LongFiles \cup LongNanFiles

\* Files load_file rejects before any row is read, a file holding nothing
\* but its units row, and a file whose name gives diameter 0.
TwoRows ==
    <<[Force |-> 0, ForceNa |-> FALSE, Stroke |-> 0, StrokeNa |-> FALSE],
      [Force |-> 1, ForceNa |-> FALSE, Stroke |-> 1, StrokeNa |-> FALSE]>>
TwoRowFile ==
    [entry |-> "load_file", kind |-> "ok", path |-> FilePath(5, DefaultSize),
     mock |-> NoMock, layout |-> "preamble", rows |-> TwoRows]
OddFiles ==
    {[entry |-> "load_file", kind |-> k, path |-> FilePath(10, DefaultSize),
      mock |-> NoMock, layout |-> "preamble", rows |-> <<>>] :
        k \in {"not_csv", "unreadable", "no_data", "empty", "no_columns", "ok"}}
    \cup {[TwoRowFile EXCEPT !.path = FilePath(10, 0)]}

\* A name whose diameter part is no integer, and metadata supplied by a
\* patched _parse_metadata: diameter 0 and a negative diameter.
BadName == <<"d", "/", "5", "i", "n", "/", "t", "-", "-", "l", "-", "l", "-", "x", "9",
             "-", "-", "1", ".", "c">>
MetaFiles ==
    {[TwoRowFile EXCEPT !.path = BadName]}
    \cup {[CurveFile(p, 0, <<2, 2>>, 1, 50, <<0, 0>>) EXCEPT
              !.mock = Mock(size, 5 * MmPerInch)] :
            p \in {2, MaxShort}, size \in {0, 0 - DefaultSize}}

\* Recordings under a directory named -5in.
NegLengthFiles ==
    {[CurveFile(p, tail, shape, 1, 50, <<0, 0>>) EXCEPT
        !.path = FilePath(0 - 5, DefaultSize)] :
        p \in (1..MaxShort) \cup {MaxLong}, tail \in {0, 1}, shape \in Shapes}

\* Frames handed straight to _find_yield_point / _calculate_material_properties
\* (as the tests do): a fresh frame, index labels from 0, nothing missing;
\* among them the empty frame.
DirectFrames ==
    {[f EXCEPT !.entry = "direct"] :
        f \in {CurveFile(p, tail, shape, s, len, <<0, 0>>) :
                 p \in PeakLabels, tail \in {0, MaxTail}, shape \in Shapes,
                 s \in StrokeSteps, len \in GaugeLengths}}
    \cup {[TwoRowFile EXCEPT !.entry = "direct", !.rows = <<>>]}

\* Recordings that begin with the line of column names.
HeaderFirstFiles ==
    {[CurveFile(p, tail, <<2, 2>>, 1, 50, <<0, 0>>) EXCEPT !.layout = "header_first"] :
        p \in {1, 6, MaxShort}, tail \in {0, 1}}

\* Recordings whose stroke is not increasing in acquisition order: the
\* crosshead returns while the force rises, over the whole recording or after
\* an advance of `up' rows.
ReturnRows(n, up) ==
    [i \in 1..n |->
        [Force |-> i, ForceNa |-> FALSE,
         Stroke |-> IF i <= up THEN i ELSE 2 * up + n - i, StrokeNa |-> FALSE]]
ReturnFiles ==
    {[TwoRowFile EXCEPT !.rows = ReturnRows(n, up)] : n \in 3..4, up \in 0..1}

Files ==
    CurveFiles \cup OddFiles \cup MetaFiles \cup NegLengthFiles \cup DirectFrames
      \cup HeaderFirstFiles \cup ReturnFiles

(***************************************************************************)
(* load_file, lines 42-97: read, check, clean, transform.                  *)
(***************************************************************************)
ColumnNames == <<"Time", "Force", "Stroke">>
UnitNames == <<"sec", "N", "mm">>

\* The lines of the file, each with what it holds.
FileLines(f) ==
    (IF f.layout = "preamble" THEN <<[what |-> "preamble", row |-> 0]>> ELSE <<>>)
      \o <<[what |-> "names", row |-> 0], [what |-> "units", row |-> 0]>>
      \o [i \in DOMAIN f.rows |-> [what |-> "data", row |-> i]]

\* pd.read_csv(filepath, skiprows=1), line 48: the first line is skipped,
\* the next one names the columns, the others are the rows 0, 1, ...
ReadSkipFirst(f) ==
    LET rest == Tail(FileLines(f))
    IN  [columns |-> IF Head(rest).what = "names" THEN ColumnNames ELSE UnitNames,
         body |-> Tail(rest)]

\* Lines 55-62.
MissingColumns(f) ==
    {col \in {"Force", "Stroke"} :
        \A c \in DOMAIN ReadSkipFirst(f).columns : ReadSkipFirst(f).columns[c] # col}

\* A fresh frame (a direct call) starts at label 0.
FirstLabel(f) == IF f.entry = "load_file" THEN 1 ELSE 0

\* df.drop(0), line 52, removes the row labelled 0; the rows left keep their
\* labels.  For a frame handed over directly nothing is read or dropped.
Labelled(f) ==
    LET body == IF f.entry = "load_file" THEN Tail(ReadSkipFirst(f).body)
                ELSE [i \in DOMAIN f.rows |-> [what |-> "data", row |-> i]]
    IN  [j \in DOMAIN body |->
            [label |-> FirstLabel(f) + j - 1,
             Force |-> f.rows[body[j].row].Force,
             ForceNa |-> f.rows[body[j].row].ForceNa,
             Stroke |-> f.rows[body[j].row].Stroke,
             StrokeNa |-> f.rows[body[j].row].StrokeNa]]

NanCount(rows, mask) == Cardinality({i \in DOMAIN rows : rows[i][mask]})

\* Mutant of TooManyNan: half of the values missing is already too many.
TooManyNanAtHalf(rows, mask) == 2 * NanCount(rows, mask) >= Len(rows)

\* isna().sum() / len(df) > 0.5; 0 / 0 is nan, and nan > 0.5 is false.
TooManyNan(rows, mask) == 2 * NanCount(rows, mask) > Len(rows)

HasNoNan(r) == ~r.ForceNa /\ ~r.StrokeNa
DropNa(lrows) == SelectSeq(lrows, HasNoNan)

\* metadata = self._parse_metadata(filepath), or what the patch supplies.
Meta(f) == IF f.mock.set THEN f.mock.meta ELSE parse_metadata(f.path)

\* |metadata.length| in stroke units (0.1 inch), and the sign of the length.
Gauge(f) == (10 * Abs(Meta(f).length)) \div MmPerInch
Sign(f) == IF Meta(f).length < 0 THEN 0 - 1 ELSE 1

\* area = pi/4 * (size * 1e-3)^2, which is <= 0 exactly when size = 0.
AreaNotPositive(f) == Meta(f).size * Meta(f).size <= 0

\* Lines 43-65: the errors before the values are looked at.
ReadError(f) ==
    CASE f.kind = "not_csv" -> "not_csv"
      [] f.kind = "unreadable" -> "error_loading"
      [] f.kind = "no_data" -> "empty_or_invalid"
      [] f.kind = "empty" -> "empty_csv"
      [] f.kind = "no_columns" -> "missing_columns"
      [] OTHER ->
           IF ReadSkipFirst(f).body = <<>> THEN "empty_csv"
           ELSE IF MissingColumns(f) # {} THEN "missing_columns"
           ELSE IF Meta(f).kind = "raise" THEN "invalid_name"     \* int() at line 130
           ELSE "none"

\* Lines 72-84, on the frame as read.
CleanError(lrows) ==
    IF TooManyNan(lrows, "ForceNa") THEN "invalid_force"
    ELSE IF TooManyNan(lrows, "StrokeNa") THEN "invalid_stroke"
    ELSE IF DropNa(lrows) = <<>> THEN "no_valid_rows"
    ELSE "none"

LoadError(f) ==
    IF ReadError(f) # "none" THEN ReadError(f)
    ELSE IF CleanError(Labelled(f)) # "none" THEN CleanError(Labelled(f))
    ELSE IF AreaNotPositive(f) THEN "invalid_area"
    ELSE "none"

Column(frame, col) == {frame[i][col] : i \in DOMAIN frame}

\* Lines 91-94.  strain = (Stroke - min) / length is held as the numerator
\* sign * (Stroke - min) over |length|.
Transform(clean, sign) ==
    LET minF == MinOf(Column(clean, "Force"))
        minS == MinOf(Column(clean, "Stroke"))
    IN  [i \in DOMAIN clean |->
            [label |-> clean[i].label, Force |-> clean[i].Force,
             Stroke |-> clean[i].Stroke,
             Stress |-> clean[i].Force - minF,
             Strain |-> sign * (clean[i].Stroke - minS)]]

(***************************************************************************)
(* _save_individual_results_csv and _save_multi_results_csv, __main__      *)
(* lines 256-295.  A result row is a dict: a sequence of key/value pairs.  *)
(* A result file is absent, or holds the lines to_csv wrote: the header    *)
(* line with the column names, then one line of cells per row.             *)
(***************************************************************************)
NoFile == [exists |-> FALSE, lines |-> <<>>]
Nan == "nan"

HasKey(row, key) == \E i \in DOMAIN row : row[i].k = key
Get(row, key) ==
    IF HasKey(row, key) THEN row[CHOOSE i \in DOMAIN row : row[i].k = key].v ELSE Nan

\* The columns so far, then the new keys in the order they first appear.
RECURSIVE AddKeys(_, _)
AddKeys(cols, keys) ==
    IF keys = <<>> THEN cols
    ELSE AddKeys(IF \E i \in DOMAIN cols : cols[i] = Head(keys) THEN cols
                 ELSE Append(cols, Head(keys)),
                 Tail(keys))

RECURSIVE KeysOf(_)
KeysOf(results) ==
    IF results = <<>> THEN <<>>
    ELSE AddKeys(<<>>, [i \in DOMAIN Head(results) |-> Head(results)[i].k])
           \o KeysOf(Tail(results))

\* pd.DataFrame(results): one column per key, nan where a dict lacks the key.
DataFrame(results) ==
    LET cols == AddKeys(<<>>, KeysOf(results))
    IN  [columns |-> cols,
         rows |-> [r \in DOMAIN results |->
                      [c \in DOMAIN cols |-> Get(results[r], cols[c])]]]

\* The cell of row r under the column named col, nan if there is no such column.
CellOf(frame, r, col) ==
    IF \E c \in DOMAIN frame.columns : frame.columns[c] = col
    THEN frame.rows[r][CHOOSE c \in DOMAIN frame.columns : frame.columns[c] = col]
    ELSE Nan

\* pd.concat([existing_df, df], ignore_index=True): the union of the columns,
\* the rows of the first frame and then those of the second.
ConcatFrames(a, b) ==
    LET cols == AddKeys(a.columns, b.columns)
    IN  [columns |-> cols,
         rows |-> [r \in DOMAIN a.rows |-> [c \in DOMAIN cols |-> CellOf(a, r, cols[c])]]
                  \o [r \in DOMAIN b.rows |-> [c \in DOMAIN cols |-> CellOf(b, r, cols[c])]]]

\* df.to_csv(csv_path, index=False): nan is written as an empty cell.
ToCsv(frame) ==
    [exists |-> TRUE,
     lines |-> <<frame.columns>>
               \o [r \in DOMAIN frame.rows |->
                      [c \in DOMAIN frame.columns |->
                          IF frame.rows[r][c] = Nan THEN "" ELSE frame.rows[r][c]]]]

\* pd.read_csv(csv_path): the first line names the columns, an empty cell is
\* nan; a file without a column name raises EmptyDataError.
ReadCsv(f) ==
    IF f.lines = <<>> \/ Head(f.lines) = <<>> THEN [kind |-> "raise"]
    ELSE [kind |-> "frame",
          columns |-> Head(f.lines),
          rows |-> [r \in DOMAIN Tail(f.lines) |->
                       [c \in DOMAIN Head(f.lines) |->
                           IF Tail(f.lines)[r][c] = "" THEN Nan ELSE Tail(f.lines)[r][c]]]]

\* Mutant of save_results_csv: the file is written anew by every call.
save_results_csv_anew(f, results) ==
    [raised |-> FALSE, file |-> ToCsv(DataFrame(results))]

\* Lines 265-273 (and 286-294): what the call leaves in the file, and whether
\* it raised.
save_results_csv(f, results) ==
    LET new_df == DataFrame(results)
        existing_df == ReadCsv(f)
    IN  IF ~f.exists THEN [raised |-> FALSE, file |-> ToCsv(new_df)]
        ELSE IF existing_df.kind = "raise" THEN [raised |-> TRUE, file |-> f]
        ELSE [raised |-> FALSE,
              file |-> ToCsv(ConcatFrames([columns |-> existing_df.columns,
                                           rows |-> existing_df.rows], new_df))]

NoYield == [tier |-> "none", value |-> 0, nan |-> FALSE]
Unset == [kind |-> "unset", x |-> 0]
NoFit == [branch |-> "none", rows |-> {}, attempted |-> FALSE]
NoMeta == [set |-> FALSE]

PipelineIdle ==
    /\ pc = "idle" /\ file = TwoRowFile /\ df = <<>>
    /\ knee = Unset /\ rolling = Unset /\ raised = {}
    /\ yp = NoYield /\ fit = NoFit /\ meta = NoMeta /\ err = "none"

NoArgs == [parse_ok |-> TRUE, command |-> "none", plot_type |-> "single",
           input |-> <<>>, summary |-> FALSE]
NoFsys == [output_ok |-> TRUE, plots_ok |-> TRUE, data_dir_exists |-> FALSE,
           dirs |-> <<>>]
NoCur == [d |-> 0, f |-> 0]
NoOutfiles == [individual |-> NoFile, multi |-> NoFile, report |-> FALSE]

CliIdle ==
    /\ cpc = "idle" /\ args = NoArgs /\ fsys = NoFsys
    /\ cur = NoCur /\ data_list = <<>> /\ group_results = {}
    /\ outfiles = NoOutfiles /\ loaded = {} /\ status = "none"

NoParse == [kind |-> "unset"]
NoStats == [kind |-> "unset"]
NoPath == [text |-> <<>>]
UtilIdle == path = NoPath /\ parsed = NoParse /\ specimens = <<>> /\ stats = NoStats

NoFirst == [set |-> FALSE]
NoOracle == [build |-> "none", pick |-> 0]
RepeatIdle == run = 0 /\ first = NoFirst /\ oracle = NoOracle

NoLabel == [kind |-> "unset"]
ExtraIdle == calls = <<>> /\ threads = <<>> /\ label = NoLabel

Init ==
    /\ pc = "start" /\ file \in Files /\ df = <<>>
    /\ knee = Unset /\ rolling = Unset /\ raised = {}
    /\ yp = NoYield /\ fit = NoFit /\ meta = NoMeta /\ err = "none"
    /\ CliIdle /\ UtilIdle /\ RepeatIdle /\ ExtraIdle

load_file ==
    /\ pc = "start" /\ file.entry = "load_file"
    /\ LET e == LoadError(file)
       IN  IF e # "none"
           THEN /\ pc' = "failed" /\ err' = e /\ df' = df
           ELSE /\ pc' = "windowing" /\ err' = err
                /\ df' = Transform(DropNa(Labelled(file)), Sign(file))
    /\ UNCHANGED <<file, knee, rolling, raised, yp, fit, meta>>
    /\ UNCHANGED <<cvars, uvars, rvars, xvars>>

\* A test calls _calculate_material_properties on a frame it built itself.
direct_call ==
    /\ pc = "start" /\ file.entry = "direct"
    /\ pc' = "windowing"
    /\ df' = IF file.rows = <<>> THEN <<>> ELSE Transform(Labelled(file), Sign(file))
    /\ UNCHANGED <<file, knee, rolling, raised, yp, fit, meta, err>>
    /\ UNCHANGED <<cvars, uvars, rvars, xvars>>

(***************************************************************************)
(* _find_yield_point, lines 273-356.                                       *)
(***************************************************************************)
MaxStress(frame) == MaxOf(Column(frame, "Stress"))
MaxStrain(frame) == MaxOf(Column(frame, "Strain"))

\* df[df[stress_col] == stress.max()].index.values[0]: the index LABEL of the
\* first row that holds the maximum stress.
MaxStressIdx(frame) ==
    frame[MinOf({i \in DOMAIN frame : frame[i].Stress = MaxStress(frame)})].label

StartIdx(frame) == (4 * MaxStressIdx(frame)) \div 10      \* int(max_stress_idx * 0.4)
EndIdx(frame) == (85 * MaxStressIdx(frame)) \div 100      \* int(max_stress_idx * 0.85)

\* end_idx - start_idx < 20
WindowTooShort(frame) == EndIdx(frame) - StartIdx(frame) < 20

\* stress[start_idx:end_idx], strain[start_idx:end_idx]: positional slices.
FocusWindow(frame) == Slice(frame, StartIdx(frame), EndIdx(frame))

\* Mutants of Handler: the knee tier's handler re-raises; no inner handlers.
HandlerReraises(site) ==
    CASE site = "knee" -> "none"
      [] site = "rolling" -> "inner"
      [] OTHER -> "outer"

HandlerOuterOnly(site) == "outer"

\* Which handler catches an exception raised at a place of _find_yield_point:
\* the knee tier and the rolling tier have their own try/except (lines 306,
\* 343), everything else falls to the outer one (line 354).
Handler(site) ==
    CASE site = "knee" -> "inner"
      [] site = "rolling" -> "inner"
      [] OTHER -> "outer"

\* return [strain.max() * 0.7] (lines 285 and 356); max() of an empty column
\* is nan.
Fallback70(frame, tier) ==
    IF frame = <<>> THEN [tier |-> tier, value |-> 0, nan |-> TRUE]
    ELSE [tier |-> tier, value |-> 70 * MaxStrain(frame), nan |-> FALSE]

\* Mutant of Plausible: the lower bound is 0.15 x max_strain.
PlausibleScaled(k, frame, len) ==
    15 * MaxStrain(frame) < 100 * k /\ 10 * k < 9 * MaxStrain(frame)

\* 0.15 < v < max_strain * 0.9, for v = k / length and max_strain = M / length.
Plausible(k, frame, len) == 15 * len < 100 * k /\ 10 * k < 9 * MaxStrain(frame)

\* An exception raised at `site` while `next` is the tier that would follow.
Raise(site, next) ==
    /\ raised' = raised \cup {site}
    /\ CASE Handler(site) = "inner" ->
              /\ pc' = next /\ yp' = yp /\ err' = err
         [] Handler(site) = "outer" ->
              /\ pc' = "properties" /\ yp' = Fallback70(df, "outer") /\ err' = err
         [] OTHER ->
              /\ pc' = "failed" /\ yp' = yp /\ err' = "yield_detection_raised"

Windowing ==
    /\ pc = "windowing"
    /\ IF df = <<>>
       THEN Raise("windowing", "knee")        \* index.values[0] on no rows: IndexError
       ELSE /\ IF WindowTooShort(df)
               THEN /\ pc' = "properties" /\ yp' = Fallback70(df, "short")
               ELSE /\ pc' = "knee" /\ yp' = yp
            /\ UNCHANGED <<raised, err>>
    /\ UNCHANGED <<file, df, knee, rolling, fit, meta>>
    /\ UNCHANGED <<cvars, uvars, rvars, xvars>>

\* KneeLocator (the kneed library) on the focus window: it finds no knee,
\* raises, or names one of the window's strain values.
KneeOutcomes(window) ==
    {[kind |-> "none", x |-> 0], [kind |-> "raise", x |-> 0]}
    \cup {[kind |-> "value", x |-> window[j].Strain] :
            j \in {i \in DOMAIN window : (i - 1) % KneeStride = 0}}

KneeAccepted(k, frame, len) == k.kind = "value" /\ Plausible(k.x, frame, len)

KneeTier ==
    /\ pc = "knee"
    /\ \E k \in KneeOutcomes(FocusWindow(df)) :
         /\ knee' = k
         /\ IF k.kind = "raise"
            THEN Raise("knee", "rolling")
            ELSE /\ IF KneeAccepted(k, df, Gauge(file))
                    THEN /\ pc' = "properties"
                         /\ yp' = [tier |-> "knee", value |-> 100 * k.x, nan |-> FALSE]
                    ELSE /\ pc' = "rolling" /\ yp' = yp
                 /\ UNCHANGED <<raised, err>>
    /\ UNCHANGED <<file, df, rolling, fit, meta>>
    /\ UNCHANGED <<cvars, uvars, rvars, xvars>>

(***************************************************************************)
(* np.polyfit(x, y, 1)[0]: the least-squares slope, as an exact fraction.  *)
(* The slope does not change when x and y are shifted, so the sums are     *)
(* taken relative to the first sample.                                     *)
(***************************************************************************)
Rat(n, d) ==
    LET g == Gcd(Abs(n), Abs(d))
        sg == IF d < 0 THEN 0 - 1 ELSE 1
    IN  [kind |-> "ratio", num |-> (sg * n) \div g, den |-> Abs(d) \div g]

PolyfitSlope(w) ==
    LET n == Len(w)
        x == [i \in 1..n |-> w[i].Strain - w[1].Strain]
        y == [i \in 1..n |-> w[i].Stress - w[1].Stress]
        Sx == SumSeq(x)
        Sy == SumSeq(y)
        Sxy == SumSeq([i \in 1..n |-> x[i] * y[i]])
        Sxx == SumSeq([i \in 1..n |-> x[i] * x[i]])
        D == n * Sxx - Sx * Sx
    IN  IF n = 0 THEN [kind |-> "raise", num |-> 0, den |-> 1]   \* TypeError: empty x
        ELSE IF D > 0 THEN Rat(n * Sxy - Sx * Sy, D)
        \* All x equal c: the system is rank deficient and lstsq returns the
        \* minimum-norm solution of the scaled system, slope = mean(y) / (2c).
        ELSE IF w[1].Strain # 0
             THEN Rat(SumSeq([i \in 1..n |-> w[i].Stress]), 2 * n * w[1].Strain)
        \* All x are 0: the column scale is 0, the scaled matrix holds nan and
        \* lstsq either raises LinAlgError or returns nan, by LAPACK build.
        ELSE [kind |-> "degenerate", num |-> 0, den |-> 1]

LapackBuilds == {"raise", "nan"}

Resolve(slope, build) ==
    IF slope.kind = "degenerate" THEN [kind |-> build, num |-> 0, den |-> 1]
    ELSE slope

RatAdd(a, b) == Rat(a.num * b.den + b.num * a.den, a.den * b.den)

\* m < 0.7 * (sum5 / 5)
Below70(m, sum5) == 50 * m.num * sum5.den < 7 * sum5.num * m.den

\* Mutant of RollingCandidate: the last point below the threshold, not the first.
RollingCandidateLastDrop(w, build) ==
    LET len == Len(w)
        ws == Max2(5, len \div 20)
        count == Max2(0, len - 2 * ws)
        moduli == [j \in 1..count |->
                      Resolve(PolyfitSlope(Slice(w, j - 1, j - 1 + 2 * ws)), build)]
        sum5 == RatAdd(RatAdd(RatAdd(RatAdd(moduli[1], moduli[2]), moduli[3]),
                              moduli[4]), moduli[5])
        drops == {j \in 1..count : moduli[j].kind = "ratio" /\ Below70(moduli[j], sum5)}
    IN  IF \E j \in 1..count : moduli[j].kind = "raise"
        THEN [kind |-> "raise", x |-> 0]
        ELSE IF ~(count > 10) THEN [kind |-> "none", x |-> 0]
        ELSE IF \E j \in 1..5 : moduli[j].kind = "nan" THEN [kind |-> "none", x |-> 0]
        ELSE IF drops = {} THEN [kind |-> "none", x |-> 0]
        ELSE [kind |-> "value", x |-> w[ws + MaxOf(drops)].Strain]

\* Method 2 (lines 311-342) up to the candidate: the strain at the first
\* point whose local slope is below 0.7 x the mean of the first five slopes.
RollingCandidate(w, build) ==
    LET len == Len(w)
        ws == Max2(5, len \div 20)                        \* window_size
        count == Max2(0, len - 2 * ws)                    \* range(ws, len - ws)
        moduli == [j \in 1..count |->
                      Resolve(PolyfitSlope(Slice(w, j - 1, j - 1 + 2 * ws)), build)]
        sum5 == RatAdd(RatAdd(RatAdd(RatAdd(moduli[1], moduli[2]), moduli[3]),
                              moduli[4]), moduli[5])
        drops == {j \in 1..count : moduli[j].kind = "ratio" /\ Below70(moduli[j], sum5)}
    IN  IF \E j \in 1..count : moduli[j].kind = "raise"
        THEN [kind |-> "raise", x |-> 0]
        ELSE IF ~(count > 10) THEN [kind |-> "none", x |-> 0]
        ELSE IF \E j \in 1..5 : moduli[j].kind = "nan" THEN [kind |-> "none", x |-> 0]
        ELSE IF drops = {} THEN [kind |-> "none", x |-> 0]
        ELSE [kind |-> "value", x |-> w[ws + MinOf(drops)].Strain]

\* The LAPACK build matters only where some window is degenerate.
RollingOutcomes(w) ==
    LET r == RollingCandidate(w, "raise")
    IN  IF r.kind = "raise"
        THEN {RollingCandidate(w, build) : build \in LapackBuilds}
        ELSE {r}

RollingAccepted(r, frame, len) == r.kind = "value" /\ Plausible(r.x, frame, len)

RollingTier ==
    /\ pc = "rolling"
    /\ \E r \in RollingOutcomes(FocusWindow(df)) :
         /\ rolling' = r
         /\ IF r.kind = "raise"
            THEN Raise("rolling", "heuristic")
            ELSE /\ IF RollingAccepted(r, df, Gauge(file))
                    THEN /\ pc' = "properties"
                         /\ yp' = [tier |-> "rolling", value |-> 100 * r.x,
                                   nan |-> FALSE]
                    ELSE /\ pc' = "heuristic" /\ yp' = yp
                 /\ UNCHANGED <<raised, err>>
    /\ UNCHANGED <<file, df, knee, fit, meta>>
    /\ UNCHANGED <<cvars, uvars, rvars, xvars>>

\* Mutant of Heuristic: >= 0.4 in place of > 0.4.
HeuristicGe(frame, len) ==
    IF 10 * MaxStrain(frame) >= 4 * len
    THEN 65 * MaxStrain(frame)
    ELSE 75 * MaxStrain(frame)

\* Method 3 (lines 348-352): max_strain > 0.4 for max_strain = M / length.
Heuristic(frame, len) ==
    IF 10 * MaxStrain(frame) > 4 * len
    THEN 65 * MaxStrain(frame)
    ELSE 75 * MaxStrain(frame)

HeuristicTier ==
    /\ pc = "heuristic"
    /\ pc' = "properties"
    /\ yp' = [tier |-> "heuristic", value |-> Heuristic(df, Gauge(file)), nan |-> FALSE]
    /\ UNCHANGED <<file, df, knee, rolling, raised, fit, meta, err>>
    /\ UNCHANGED <<cvars, uvars, rvars, xvars>>

(***************************************************************************)
(* _calculate_material_properties, lines 188-256.                          *)
(***************************************************************************)
\* `if knee_strain and len(knee_strain) > 0`: the returned list is not empty.
HasYield(y) == y.tier # "none"

\* df[df["Strain"] <= knee_strain_val], as positions of df; a comparison
\* with nan is false.
ElasticRegion(frame, y) ==
    IF y.nan THEN {}
    ELSE {i \in DOMAIN frame : 100 * frame[i].Strain <= y.value}

Rows(frame, positions) ==
    LET F[i \in 0..Len(frame)] ==
            IF i = 0 THEN <<>>
            ELSE IF i \in positions THEN Append(F[i - 1], frame[i]) ELSE F[i - 1]
    IN  F[Len(frame)]

FitMax(frame) == (2 * MaxStressIdx(frame)) \div 10          \* int(max_stress_idx * 0.2)

\* strain[0:fit_max], stress[0:fit_max]: positional slices.
First20(frame) == {i \in DOMAIN frame : i <= FitMax(frame)}

\* Lines 199-226: where the modulus is fitted.
FitWindow(frame, y) ==
    IF HasYield(y) /\ Cardinality(ElasticRegion(frame, y)) > 5
    THEN [branch |-> "elastic", rows |-> ElasticRegion(frame, y), attempted |-> TRUE]
    ELSE [branch |-> "first20", rows |-> First20(frame),
          attempted |-> FitMax(frame) > 1]

ZeroModulus == [kind |-> "zero", num |-> 0, den |-> 1]

Modulus(frame, w, build) ==
    IF w.attempted THEN Resolve(PolyfitSlope(Rows(frame, w.rows)), build)
    ELSE ZeroModulus

\* (df["Strain"] - knee_strain_val).abs().idxmin(): position of the first row
\* nearest to the yield strain.
ClosestIdx(frame, y) ==
    LET dist(i) == Abs(100 * frame[i].Strain - y.value)
    IN  MinOf({i \in DOMAIN frame : \A j \in DOMAIN frame : dist(i) <= dist(j)})

\* Twice trapz(stress, strain) * area * length over the rows, taken in row
\* order: a strain step times the length is the stroke step.
Trapz2(w) ==
    SumSeq([i \in 1..(Len(w) - 1) |->
               (w[i + 1].Stroke - w[i].Stroke) * (w[i + 1].Stress + w[i].Stress)])

\* Mutant of KineticEnergy: the integral runs over the whole curve.
KineticEnergyWholeCurve(frame, y) ==
    IF HasYield(y) /\ Len(frame) > 1
    THEN [kind |-> "trapz", e |-> Trapz2(frame)]
    ELSE [kind |-> "zero", e |-> 0]

\* kinetic_energy = trap_energy * area * (length * 1e-3).  Stress carries
\* 1/area and Strain 1/length, so area and length cancel: with Force in N the
\* energy is Trapz2 / 2 * 2.54e-3 J, held here as the number Trapz2 in units
\* of 1.27 mJ.  The else branches give exactly 0.
KineticEnergy(frame, y) ==
    LET sub == ElasticRegion(frame, y)
    IN  IF HasYield(y) /\ Cardinality(sub) > 1
        THEN [kind |-> "trapz", e |-> Trapz2(Rows(frame, sub))]
        ELSE [kind |-> "zero", e |-> 0]

\* velocity = np.sqrt(2 * kinetic_energy / 0.045): the square root of
\* 2 * 1.27e-3 / 0.045 = 127 / 2250 times the energy number; nan when the
\* energy is negative.
Velocity(ke) ==
    IF ke.kind = "zero" THEN [kind |-> "zero", num |-> 0, den |-> 1]
    ELSE IF ke.e < 0 THEN [kind |-> "nan", num |-> 0, den |-> 1]
    ELSE [kind |-> "sqrt", num |-> 127 * ke.e, den |-> 2250]

\* Mutant of Properties: yield_stress is the stress at the yield point.
PropertiesYieldAtKnee(frame, y, modulus) ==
    [set |-> TRUE,
     modulus |-> modulus,
     yield_stress |-> frame[ClosestIdx(frame, y)].Stress,
     max_force |-> MaxOf(Column(frame, "Force")),
     kinetic_energy |-> KineticEnergy(frame, y),
     velocity |-> Velocity(KineticEnergy(frame, y)),
     yield_point_strain |-> y.value,
     yield_point_stress |-> frame[ClosestIdx(frame, y)].Stress]

\* Lines 250-256.
Properties(frame, y, modulus) ==
    [set |-> TRUE,
     modulus |-> modulus,
     yield_stress |-> MaxStress(frame),
     max_force |-> MaxOf(Column(frame, "Force")),
     kinetic_energy |-> KineticEnergy(frame, y),
     velocity |-> Velocity(KineticEnergy(frame, y)),
     yield_point_strain |-> y.value,
     yield_point_stress |-> frame[ClosestIdx(frame, y)].Stress]

\* The LAPACK build matters only where the fit is degenerate.
ModulusOutcomes(frame, w) ==
    LET m == Modulus(frame, w, "raise")
    IN  IF m.kind = "raise"
        THEN {Modulus(frame, w, build) : build \in LapackBuilds}
        ELSE {m}

\* An exception here is not caught in the method: load_file turns it into
\* a ValueError (lines 107-111), a direct caller gets it as raised.
CalculateProperties ==
    /\ pc = "properties"
    /\ IF df = <<>>
       THEN \* idxmin of an empty column raises ValueError
            /\ pc' = "failed" /\ err' = "raised_to_caller"
            /\ UNCHANGED <<fit, meta>>
       ELSE LET w == FitWindow(df, yp)
            IN  /\ fit' = w
                /\ \E m \in ModulusOutcomes(df, w) :
                     IF m.kind = "raise"
                     THEN /\ pc' = "failed" /\ err' = "error_loading"
                          /\ meta' = meta
                     ELSE /\ pc' = "done" /\ err' = err
                          /\ meta' = Properties(df, yp, m)
    /\ UNCHANGED <<file, df, knee, rolling, raised, yp>>
    /\ UNCHANGED <<cvars, uvars, rvars, xvars>>

Next ==
    \/ load_file \/ direct_call \/ Windowing \/ KneeTier
    \/ RollingTier \/ HeuristicTier \/ CalculateProperties

Spec == Init /\ [][Next]_vars

(***************************************************************************)
(* __main__: main and the command handlers.  parse_command_line is taken   *)
(* by its result: the parsed arguments, or an exception.  The files a      *)
(* command meets are either a two-row recording that loads or a CSV        *)
(* without the Force and Stroke columns.                                   *)
(***************************************************************************)
MaxFiles == 2    \* files per command line / per length directory

BadCsv == [TwoRowFile EXCEPT !.kind = "no_columns", !.rows = <<>>]
CliFiles == {TwoRowFile, BadCsv}

SeqsUpTo(S, n) == UNION {[1..k -> S] : k \in 0..n}

\* The length directories data_dir.glob("group_*") / glob("*in") yields.
DirKeys ==
    <<[group |-> "group_1", length |-> "5in"],
      [group |-> "group_2", length |-> "10in"]>>

CliArgs ==
    {[NoArgs EXCEPT !.parse_ok = FALSE], [NoArgs EXCEPT !.command = "unknown"]}
    \cup {[NoArgs EXCEPT !.command = "analyze", !.plot_type = t, !.input = i] :
            t \in {"single", "multi"}, i \in SeqsUpTo(CliFiles, MaxFiles) \ {<<>>}}
    \cup {[NoArgs EXCEPT !.command = "visualize", !.input = i] :
            i \in SeqsUpTo(CliFiles, MaxFiles) \ {<<>>}}
    \cup {[NoArgs EXCEPT !.command = "batch", !.summary = b] : b \in BOOLEAN}

FileSystems(a) ==
    {[output_ok |-> o, plots_ok |-> pl, data_dir_exists |-> e, dirs |-> t] :
        o \in BOOLEAN, pl \in BOOLEAN,
        e \in IF a.command = "batch" THEN BOOLEAN ELSE {FALSE},
        t \in IF a.command = "batch"
              THEN [DOMAIN DirKeys -> SeqsUpTo(CliFiles, MaxFiles)]
              ELSE {<<>>}}

\* A row an earlier run left in a result file.
OldRow == <<[k |-> "file", v |-> "earlier"], [k |-> "group", v |-> "g"]>>
OldFile == ToCsv(DataFrame(<<OldRow>>))

InitCli ==
    /\ PipelineIdle
    /\ cpc = "main" /\ args \in CliArgs /\ fsys \in FileSystems(args)
    /\ (fsys.data_dir_exists \/ fsys.dirs \in {<<>>, [i \in DOMAIN DirKeys |-> <<>>]})
    /\ cur = NoCur /\ data_list = <<>> /\ group_results = {}
    /\ outfiles \in {NoOutfiles,
                     [NoOutfiles EXCEPT !.individual = OldFile, !.multi = OldFile]}
    /\ (args.command = "analyze" \/ outfiles = NoOutfiles)
    /\ loaded = {} /\ status = "none"
    /\ UtilIdle /\ RepeatIdle /\ ExtraIdle

\* What a handler returns: 1 from its `except Exception` clause, else 0.
HandlerStatusSwallow(failed) == "0"
HandlerStatus(failed) == IF failed THEN "1" ELSE "0"

Return(s) == cpc' = "exit" /\ status' = s

\* main, lines 380-413: every exception ends in `return 1`; a known command
\* goes to its handler, whose result main returns.
Main ==
    /\ cpc = "main"
    /\ IF ~args.parse_ok \/ ~fsys.output_ok        \* parse or mkdir raised
       THEN Return("1")
       ELSE IF args.command \in {"analyze", "visualize", "batch"}
            THEN cpc' = args.command /\ status' = status
            ELSE Return("1")                        \* Unknown command
    /\ cur' = [d |-> 1, f |-> 1]
    /\ UNCHANGED <<args, fsys, data_list, group_results, outfiles, loaded>>
    /\ UNCHANGED <<pvars, uvars, rvars, xvars>>

\* analyzer.load_file(f) inside a handler: raises or gives a frame.
Loads(f) == LoadError(f) = "none"

(* handle_batch_command, lines 316-375 *)
BatchStart ==
    /\ cpc = "batch"
    /\ IF ~fsys.data_dir_exists
       THEN Return("1")
       ELSE cpc' = "batch_dir" /\ status' = status
    /\ UNCHANGED <<args, fsys, cur, data_list, group_results, outfiles, loaded>>
    /\ UNCHANGED <<pvars, uvars, rvars, xvars>>

\* One element of [analyzer.load_file(f) for f in csv_file_paths].
BatchLoadFile ==
    /\ cpc = "batch_dir"
    /\ cur.d <= Len(fsys.dirs) /\ cur.f <= Len(fsys.dirs[cur.d])
    /\ LET f == fsys.dirs[cur.d][cur.f]
       IN  IF Loads(f)
           THEN /\ data_list' = Append(data_list, f)
                /\ loaded' = loaded \cup {<<cur.d, cur.f>>}
                /\ cur' = [cur EXCEPT !.f = cur.f + 1]
                /\ UNCHANGED <<cpc, status>>
           ELSE /\ Return(HandlerStatus(TRUE))
                /\ UNCHANGED <<data_list, loaded, cur>>
    /\ UNCHANGED <<args, fsys, group_results, outfiles>>
    /\ UNCHANGED <<pvars, uvars, rvars, xvars>>

\* calculate_summary_stats, lines 368-380 (the count).
SummaryStats(frames) == [sample_count |-> Len(frames)]

\* Mutant of DirLoaded: the summary may start once a file is loaded.
DirLoadedEarly(c, files) == c.f > 1 \/ files = <<>>

\* The list comprehension of line 352 has run over every file of the directory.
DirLoaded(c, files) == c.f > Len(files)

\* The directory's files are all loaded: plot, summarise, go to the next
\* directory; a directory without CSV files is skipped.
BatchSummarize ==
    /\ cpc = "batch_dir"
    /\ cur.d <= Len(fsys.dirs) /\ DirLoaded(cur, fsys.dirs[cur.d])
    /\ IF fsys.dirs[cur.d] # <<>> /\ ~fsys.plots_ok
       THEN /\ Return(HandlerStatus(TRUE))
            /\ UNCHANGED <<cur, data_list, group_results>>
       ELSE /\ group_results' =
                 IF fsys.dirs[cur.d] = <<>> THEN group_results
                 ELSE group_results \cup
                        {[key |-> DirKeys[cur.d], stats |-> SummaryStats(data_list)]}
            /\ cur' = [d |-> cur.d + 1, f |-> 1]
            /\ data_list' = <<>>
            /\ UNCHANGED <<cpc, status>>
    /\ UNCHANGED <<args, fsys, outfiles, loaded>>
    /\ UNCHANGED <<pvars, uvars, rvars, xvars>>

BatchFinish ==
    /\ cpc = "batch_dir" /\ cur.d > Len(fsys.dirs)
    /\ outfiles' = [outfiles EXCEPT !.report = args.summary]
    /\ Return(HandlerStatus(FALSE))
    /\ UNCHANGED <<args, fsys, cur, data_list, group_results, loaded>>
    /\ UNCHANGED <<pvars, uvars, rvars, xvars>>

(* handle_analyze_command, lines 131-253 *)
\* The dict collected per loaded file (lines 156-169, 193-210), and the
\* multi-run average (lines 215-235).
ResultRows(frames) ==
    [i \in 1..Len(frames) |->
        <<[k |-> "file", v |-> Digits[i + 1]], [k |-> "group", v |-> "g"]>>]
MultiResult(frames) ==
    <<[k |-> "group", v |-> "g"], [k |-> "sample_count", v |-> Digits[Len(frames) + 1]]>>

\* single: load, collect, plot_single_trace, per file; multi: one element
\* of [analyzer.load_file(f) for f in args["input"]].
AnalyzeFile ==
    /\ cpc = "analyze" /\ cur.f <= Len(args.input)
    /\ LET f == args.input[cur.f]
       IN  IF Loads(f) /\ (args.plot_type = "multi" \/ fsys.plots_ok)
           THEN /\ data_list' = Append(data_list, f)
                /\ cur' = [cur EXCEPT !.f = cur.f + 1]
                /\ UNCHANGED <<cpc, status>>
           ELSE /\ Return(HandlerStatus(TRUE))
                /\ UNCHANGED <<data_list, cur>>
    /\ UNCHANGED <<args, fsys, group_results, outfiles, loaded>>
    /\ UNCHANGED <<pvars, uvars, rvars, xvars>>

\* multi, lines 213-242: _save_multi_results_csv, then plot_multi_trace.
AnalyzeMultiAverages ==
    /\ cpc = "analyze" /\ args.plot_type = "multi" /\ cur.f > Len(args.input)
    /\ LET saved == save_results_csv(outfiles.multi, <<MultiResult(data_list)>>)
       IN  /\ outfiles' = [outfiles EXCEPT !.multi = saved.file]
           /\ IF ~saved.raised /\ fsys.plots_ok
              THEN cpc' = "analyze_save" /\ status' = status
              ELSE Return(HandlerStatus(TRUE))
    /\ UNCHANGED <<args, fsys, cur, data_list, group_results, loaded>>
    /\ UNCHANGED <<pvars, uvars, rvars, xvars>>

\* Lines 244-249: _save_individual_results_csv appends, then return 0.
AnalyzeFinish ==
    /\ \/ cpc = "analyze" /\ args.plot_type = "single" /\ cur.f > Len(args.input)
       \/ cpc = "analyze_save"
    /\ LET saved == IF data_list # <<>>             \* if individual_results:
                    THEN save_results_csv(outfiles.individual, ResultRows(data_list))
                    ELSE [raised |-> FALSE, file |-> outfiles.individual]
       IN  /\ outfiles' = [outfiles EXCEPT !.individual = saved.file]
           /\ Return(HandlerStatus(saved.raised))
    /\ UNCHANGED <<args, fsys, cur, data_list, group_results, loaded>>
    /\ UNCHANGED <<pvars, uvars, rvars, xvars>>

(* handle_visualize_command, lines 298-313 *)
VisualizeFile ==
    /\ cpc = "visualize" /\ cur.f <= Len(args.input)
    /\ IF args.input[cur.f].kind = "ok" /\ fsys.plots_ok
       THEN cur' = [cur EXCEPT !.f = cur.f + 1] /\ UNCHANGED <<cpc, status>>
       ELSE Return(HandlerStatus(TRUE)) /\ cur' = cur
    /\ UNCHANGED <<args, fsys, data_list, group_results, outfiles, loaded>>
    /\ UNCHANGED <<pvars, uvars, rvars, xvars>>

VisualizeFinish ==
    /\ cpc = "visualize" /\ cur.f > Len(args.input)
    /\ Return(HandlerStatus(FALSE))
    /\ UNCHANGED <<args, fsys, cur, data_list, group_results, outfiles, loaded>>
    /\ UNCHANGED <<pvars, uvars, rvars, xvars>>

NextCli ==
    \/ Main
    \/ BatchStart \/ BatchLoadFile \/ BatchSummarize \/ BatchFinish
    \/ AnalyzeFile \/ AnalyzeMultiAverages \/ AnalyzeFinish
    \/ VisualizeFile \/ VisualizeFinish

SpecCli == InitCli /\ [][NextCli]_vars

(***************************************************************************)
(* Several load_file calls on one MaterialAnalyzer.  The analyzer keeps    *)
(* nothing but its logger (lines 26-28), so each call starts from fresh    *)
(* locals.  The installed libraries are fixed for the whole process: the   *)
(* LAPACK build, and KneeLocator as some function of the window it is      *)
(* given.  The first call loads a file, the second some other file, the    *)
(* third the first file again.                                             *)
(***************************************************************************)
MaxPick == 3     \* KneeLocator functions tried: none, raise, two knees

Oracles == [build : LapackBuilds, pick : 0..MaxPick]

\* What the installed KneeLocator gives for a window.
PickKnee(window, pick) ==
    LET at == {i \in DOMAIN window : (i - 1) % KneeStride = 0}
    IN  IF pick = 0 \/ at = {} THEN [kind |-> "none", x |-> 0]
        ELSE IF pick = 1 THEN [kind |-> "raise", x |-> 0]
        ELSE [kind |-> "value",
              x |-> window[((pick - 2) % Cardinality(at)) * KneeStride + 1].Strain]

RepeatFiles ==
    {CurveFile(p, tail, shape, 1, len, k) :
        p \in {2, MaxShort}, tail \in {0, MaxTail},
        shape \in Shapes, len \in GaugeLengths, k \in {<<0, 0>>, <<1, 0>>}}
    \cup {CurveFile(MaxLong, tail, shape, 1, 50, <<0, 0>>) :
            tail \in {0, MaxTail}, shape \in Shapes}
    \cup OddFiles \cup MetaFiles
InterFiles == {TwoRowFile, BadCsv, CurveFile(MaxShort, 1, <<3, 1>>, 1, 200, <<0, 0>>)}

\* Mutant of Locals: the metadata of the earlier call is kept.
LocalsKeepMeta(earlier) ==
    [df |-> <<>>, knee |-> Unset, rolling |-> Unset, raised |-> {},
     yp |-> NoYield, fit |-> NoFit, meta |-> earlier, err |-> "none"]

\* The locals a load_file call starts from, whatever an earlier call left.
Locals(earlier) ==
    [df |-> <<>>, knee |-> Unset, rolling |-> Unset, raised |-> {},
     yp |-> NoYield, fit |-> NoFit, meta |-> NoMeta, err |-> "none"]

\* What a call gives its caller: the frame with its metadata, or the error.
Outcome ==
    [returned |-> pc = "done", err |-> err, df |-> df, meta |-> meta,
     yield |-> yp, parsed |-> Meta(file)]

InitRepeat ==
    /\ pc = "start" /\ file \in RepeatFiles /\ df = <<>>
    /\ knee = Unset /\ rolling = Unset /\ raised = {}
    /\ yp = NoYield /\ fit = NoFit /\ meta = NoMeta /\ err = "none"
    /\ CliIdle /\ UtilIdle /\ ExtraIdle
    /\ run = 1 /\ first = NoFirst /\ oracle \in Oracles

KneeTierInstalled ==
    /\ KneeTier
    /\ knee' = PickKnee(FocusWindow(df), oracle.pick)

RollingTierInstalled ==
    /\ RollingTier
    /\ rolling' = RollingCandidate(FocusWindow(df), oracle.build)

CalculatePropertiesInstalled ==
    /\ CalculateProperties
    /\ df # <<>> =>
          LET m == Modulus(df, FitWindow(df, yp), oracle.build)
          IN  IF m.kind = "raise" THEN pc' = "failed"
              ELSE pc' = "done" /\ meta' = Properties(df, yp, m)

\* The caller's next load_file call on the same analyzer.
NextCall ==
    /\ pc \in {"done", "failed"} /\ run \in {1, 2}
    /\ IF run = 1
       THEN /\ first' = [set |-> TRUE, file |-> file, out |-> Outcome]
            /\ file' \in InterFiles
       ELSE /\ first' = first
            /\ file' = first.file
    /\ run' = run + 1
    /\ pc' = "start"
    /\ LET new == Locals(meta)
       IN  /\ df' = new.df /\ knee' = new.knee /\ rolling' = new.rolling
           /\ raised' = new.raised /\ yp' = new.yp /\ fit' = new.fit
           /\ meta' = new.meta /\ err' = new.err
    /\ oracle' = oracle
    /\ UNCHANGED <<cvars, uvars, xvars>>

NextRepeat ==
    \/ load_file \/ Windowing \/ KneeTierInstalled \/ RollingTierInstalled
    \/ HeuristicTier \/ CalculatePropertiesInstalled \/ NextCall

SpecRepeat == InitRepeat /\ [][NextRepeat]_vars

(***************************************************************************)
(* Concurrent load_file calls on one MaterialAnalyzer for one file (as     *)
(* test_concurrent_file_access starts them), after one call made alone.    *)
(* A call's df, metadata and results are locals of the call; the analyzer  *)
(* holds the logger only.  A thread may be preempted between any two       *)
(* stages of its call.                                                     *)
(***************************************************************************)
MaxThreads == 2

Workers == 1..MaxThreads

ThreadFiles ==
    {CurveFile(p, 0, shape, 1, 50, k) :
        p \in {2, MaxShort}, shape \in {<<2, 2>>, <<3, 1>>}, k \in {<<0, 0>>, <<1, 0>>}}
    \cup {CurveFile(MaxLong, 0, <<2, 2>>, 1, 50, <<0, 0>>)}
    \cup OddFiles \cup MetaFiles \cup HeaderFirstFiles
\* KneeLocator finds nothing, or names the first sample of the window.
ThreadOracles == {o \in Oracles : o.pick \in {0, 2}}

\* _find_yield_point as a function of the curve and the installed libraries.
find_yield_point(frame, len, orc) ==
    IF frame = <<>> THEN Fallback70(frame, "outer")
    ELSE IF WindowTooShort(frame) THEN Fallback70(frame, "short")
    ELSE LET k == PickKnee(FocusWindow(frame), orc.pick)
             r == RollingCandidate(FocusWindow(frame), orc.build)
         IN  IF KneeAccepted(k, frame, len)
             THEN [tier |-> "knee", value |-> 100 * k.x, nan |-> FALSE]
             ELSE IF RollingAccepted(r, frame, len)
             THEN [tier |-> "rolling", value |-> 100 * r.x, nan |-> FALSE]
             ELSE [tier |-> "heuristic", value |-> Heuristic(frame, len), nan |-> FALSE]

\* Mutant of Slot: the analyzer keeps the frame it works on (self.df).
SlotOnAnalyzer(t) == 1

\* Where the frame of call t lives: df is a local of the call.
Slot(t) == t

NoCall == [pc |-> "start", err |-> "none", df |-> <<>>, yp |-> NoYield, meta |-> NoMeta]

\* The frame holds the Stress and Strain columns.
IsCurve(rows) == rows # <<>> /\ "Stress" \in DOMAIN rows[1]

InitThreads ==
    /\ pc = "start" /\ file \in ThreadFiles /\ df = <<>>
    /\ knee = Unset /\ rolling = Unset /\ raised = {}
    /\ yp = NoYield /\ fit = NoFit /\ meta = NoMeta /\ err = "none"
    /\ CliIdle /\ UtilIdle
    /\ run = 1 /\ first = NoFirst /\ oracle \in ThreadOracles
    /\ calls = <<>> /\ label = NoLabel
    /\ threads = [call |-> [t \in Workers |-> NoCall],
                  frame |-> [t \in Workers |-> <<>>]]

Started == pc \in {"done", "failed"}

Fail(t, e) ==
    threads' = [threads EXCEPT !.call[t].pc = "failed", !.call[t].err = e]

\* Lines 43-65: read the file into the call's frame.
ThreadRead(t) ==
    /\ Started /\ threads.call[t].pc = "start"
    /\ IF ReadError(file) # "none"
       THEN Fail(t, ReadError(file))
       ELSE threads' = [threads EXCEPT !.call[t].pc = "clean",
                                       !.frame[Slot(t)] = Labelled(file)]
    /\ UNCHANGED <<pvars, cvars, uvars, rvars, calls, label>>

\* Lines 68-84: a frame that holds a curve has no missing value.
ThreadClean(t) ==
    /\ Started /\ threads.call[t].pc = "clean"
    /\ LET rows == threads.frame[Slot(t)]
       IN  IF IsCurve(rows)
           THEN threads' = [threads EXCEPT !.call[t].pc = "transform"]
           ELSE IF CleanError(rows) # "none"
           THEN Fail(t, CleanError(rows))
           ELSE threads' = [threads EXCEPT !.call[t].pc = "transform",
                                           !.frame[Slot(t)] = DropNa(rows)]
    /\ UNCHANGED <<pvars, cvars, uvars, rvars, calls, label>>

\* Lines 87-97.
ThreadTransform(t) ==
    /\ Started /\ threads.call[t].pc = "transform"
    /\ IF AreaNotPositive(file)
       THEN Fail(t, "invalid_area")
       ELSE threads' = [threads EXCEPT
                          !.call[t].pc = "analyse",
                          !.frame[Slot(t)] =
                              Transform(threads.frame[Slot(t)], Sign(file))]
    /\ UNCHANGED <<pvars, cvars, uvars, rvars, calls, label>>

\* Lines 100-103: _calculate_material_properties and return; a frame without
\* the Stress column raises KeyError, which line 111 turns into ValueError.
ThreadAnalyse(t) ==
    /\ Started /\ threads.call[t].pc = "analyse"
    /\ LET rows == threads.frame[Slot(t)]
           y == find_yield_point(rows, Gauge(file), oracle)
           m == Modulus(rows, FitWindow(rows, y), oracle.build)
       IN  IF ~IsCurve(rows) \/ m.kind = "raise"
           THEN Fail(t, "error_loading")
           ELSE threads' = [threads EXCEPT
                              !.call[t] = [pc |-> "done", err |-> "none", df |-> rows,
                                           yp |-> y, meta |-> Properties(rows, y, m)]]
    /\ UNCHANGED <<pvars, cvars, uvars, rvars, calls, label>>

NextThreads ==
    \/ load_file \/ Windowing \/ KneeTierInstalled \/ RollingTierInstalled
    \/ HeuristicTier \/ CalculatePropertiesInstalled
    \/ \E t \in Workers :
         ThreadRead(t) \/ ThreadClean(t) \/ ThreadTransform(t) \/ ThreadAnalyse(t)

SpecThreads == InitThreads /\ [][NextThreads]_vars

(***************************************************************************)
(* _parse_metadata on its own.  A path is made of directory components and *)
(* a file name; the name of "--" segments, the middle segment of "-"       *)
(* parts.  Each piece carries what a reader of the name takes it for: the  *)
(* integer a part or a run stands for, the inches a component ending in    *)
(* "in" stands for.  path.text is the string the program is given.         *)
(***************************************************************************)
MaxParts == 3    \* parts of the middle segment
MaxDepth == 2    \* directory components

Part(text, int, val) == [text |-> text, int |-> int, val |-> val]
PartTokens ==
    {Part(<<"l">>, FALSE, 0), Part(<<"2", "1">>, TRUE, 21), Part(<<"0">>, TRUE, 0),
     Part(<<"0", "7">>, TRUE, 7), Part(<<"x", "9">>, FALSE, 0), Part(<<>>, FALSE, 0)}

\* The third segment and the run number before its first ".".
RunTok(text, val) == [text |-> text, val |-> val]
RunTokens ==
    {RunTok(<<"1", ".", "c">>, 1), RunTok(<<"x", ".", "c">>, 0), RunTok(<<>>, 0),
     RunTok(<<"1", "2">>, 12), RunTok(<<".", "c">>, 0),
     RunTok(<<"3", ".", "4", ".", "c">>, 3)}

\* suffix: the component ends with "in" and holds a digit; ok: what stands
\* before the suffix is an integer, val.
Comp(text, suffix, ok, val) ==
    [text |-> text, suffix |-> suffix, ok |-> ok, val |-> val]
CompTokens ==
    {Comp(<<"d">>, FALSE, FALSE, 0), Comp(<<>>, FALSE, FALSE, 0),
     Comp(<<"5", "i", "n">>, TRUE, TRUE, 5),
     Comp(<<"1", "0", "i", "n">>, TRUE, TRUE, 10),
     Comp(<<"2", "0", "i", "n">>, TRUE, TRUE, 20),
     Comp(<<"-", "5", "i", "n">>, TRUE, TRUE, 0 - 5),
     Comp(<<"0", "i", "n">>, TRUE, TRUE, 0),
     Comp(<<"x", "5", "i", "n">>, TRUE, FALSE, 0),
     Comp(<<"i", "n">>, FALSE, FALSE, 0),
     Comp(<<"i", "n", "5">>, FALSE, FALSE, 0),
     Comp(<<"1", "i", "n", "0">>, FALSE, FALSE, 0)}

Texts(toks) == [i \in DOMAIN toks |-> toks[i].text]

NameMade(nsegs, parts, runtok) == [nsegs |-> nsegs, parts |-> parts, runtok |-> runtok]
NameText(name) ==
    Join(SubSeq(<<(IF name.nsegs = 1 THEN <<"t", ".", "c">> ELSE <<"t">>),
                  Join(Texts(name.parts), <<"-">>),
                  name.runtok.text,
                  <<"z">>>>, 1, name.nsegs),
         <<"-", "-">>)

Names ==
    {NameMade(1, <<>>, RunTok(<<>>, 0))}
    \cup {NameMade(2, ps, RunTok(<<>>, 0)) : ps \in SeqsUpTo(PartTokens, MaxParts)}
    \cup {NameMade(n, ps, r) :
            n \in {3, 4}, ps \in SeqsUpTo(PartTokens, MaxParts), r \in RunTokens}

\* test--line-crimp-21--1.csv under group_1/5in, shortened.
StdName ==
    NameMade(3, <<Part(<<"l">>, FALSE, 0), Part(<<"l">>, FALSE, 0),
                  Part(<<"2", "1">>, TRUE, 21)>>, RunTok(<<"1", ".", "c">>, 1))
StdDirs == <<Comp(<<"d">>, FALSE, FALSE, 0), Comp(<<"5", "i", "n">>, TRUE, TRUE, 5)>>

PathMade(dirs, name) ==
    [text |-> Join(Texts(dirs) \o <<NameText(name)>>, <<"/">>),
     dirs |-> dirs, name |-> name]

Paths ==
    {PathMade(StdDirs, name) : name \in Names}
    \cup {PathMade(dirs, StdName) : dirs \in SeqsUpTo(CompTokens, MaxDepth)}

InitMeta ==
    /\ PipelineIdle /\ CliIdle /\ RepeatIdle
    /\ calls = <<>> /\ threads = <<>> /\ label = NoLabel
    /\ path \in Paths /\ parsed = NoParse
    /\ specimens = <<>> /\ stats = NoStats

call_parse_metadata ==
    /\ parsed = NoParse /\ path # NoPath
    /\ parsed' = parse_metadata(path.text)
    /\ UNCHANGED <<path, specimens, stats>>
    /\ UNCHANGED <<pvars, cvars, rvars, xvars>>

\* MaterialVisualizer._extract_length_from_path, visualization.py lines
\* 54-65: the first of Path(filepath).parts (the file name included, empty
\* components dropped) that ends with "in" and holds a digit.
EndsWithIn(part) ==
    Len(part) >= 2 /\ SubSeq(part, Len(part) - 1, Len(part)) = In
extract_length_from_path(filepath) ==
    LET parts == SelectSeq(Split(filepath, <<"/">>), LAMBDA part : part # <<>>)
        hits == {i \in DOMAIN parts : EndsWithIn(parts[i]) /\ HasDigit(parts[i])}
    IN  IF hits = {} THEN [kind |-> "unknown_length"]
        ELSE [kind |-> "part", text |-> parts[MinOf(hits)]]

call_extract_length_from_path ==
    /\ label = NoLabel /\ path # NoPath
    /\ label' = extract_length_from_path(path.text)
    /\ UNCHANGED <<path, parsed, specimens, stats, calls, threads>>
    /\ UNCHANGED <<pvars, cvars, rvars>>

NextMeta == call_parse_metadata \/ call_extract_length_from_path

SpecMeta == InitMeta /\ [][NextMeta]_vars

(***************************************************************************)
(* calculate_summary_stats, lines 358-395.  A specimen is its df.meta: a   *)
(* function from the attribute names it carries to their values.  A mean   *)
(* is an exact fraction; a standard deviation is held as its square, the   *)
(* population variance.                                                    *)
(***************************************************************************)
MaxSpecimens == 3

SpecimenMetas ==
    {[modulus |-> 10, yield_stress |-> 5, max_force |-> 2,
      length |-> 1270, size |-> 21, ctype |-> Crimp],
     [modulus |-> 14, yield_stress |-> 5, max_force |-> 8,
      length |-> 5080, size |-> 30, ctype |-> <<"b">>],
     [modulus |-> 11, max_force |-> 3, size |-> 25],
     [max_force |-> 10],
     [length |-> 2540],
     [modulus |-> 0],
     [yield_stress |-> 7, ctype |-> <<"b">>]}

HasAttr(m, attr) == attr \in DOMAIN m

\* Mutant of Carried: a specimen lacking the attribute counts as 0.
CarriedOrZero(list, attr) ==
    [i \in DOMAIN list |-> IF HasAttr(list[i], attr) THEN list[i][attr] ELSE 0]

\* [df.meta.<attr> for df in data_list if hasattr(df.meta, "<attr>")]
Carried(list, attr) ==
    LET having == SelectSeq([i \in DOMAIN list |-> i],
                            LAMBDA i : HasAttr(list[i], attr))
    IN  [k \in DOMAIN having |-> list[having[k]][attr]]

\* np.mean(v) and np.std(v) ** 2 = mean(abs(v - mean(v)) ** 2); 0 for no values.
Mean(v) == IF v = <<>> THEN Rat(0, 1) ELSE Rat(SumSeq(v), Len(v))
Variance(v) ==
    IF v = <<>> THEN Rat(0, 1)
    ELSE LET n == Len(v)
             S == SumSeq(v)
         IN  Rat(SumSeq([i \in DOMAIN v |-> (n * v[i] - S) * (n * v[i] - S)]),
                 n * n * n)

\* Mutant of FirstMeta: the last specimen's metadata.
LastMeta(list) == list[Len(list)]

\* first_meta = data_list[0].meta
FirstMeta(list) == list[1]

\* getattr(first_meta, attr, default)
GetAttr(m, attr, default) == IF HasAttr(m, attr) THEN m[attr] ELSE default

EmptyDict == [k \in {} |-> 0]

calculate_summary_stats(list) ==
    IF list = <<>> THEN EmptyDict
    ELSE [sample_count |-> Len(list),
          modulus_avg |-> Mean(Carried(list, "modulus")),
          modulus_var |-> Variance(Carried(list, "modulus")),
          yield_stress_avg |-> Mean(Carried(list, "yield_stress")),
          yield_stress_var |-> Variance(Carried(list, "yield_stress")),
          max_force_avg |-> Mean(Carried(list, "max_force")),
          max_force_var |-> Variance(Carried(list, "max_force")),
          length |-> GetAttr(FirstMeta(list), "length", DefaultLength),
          size |-> GetAttr(FirstMeta(list), "size", DefaultSize),
          ctype |-> GetAttr(FirstMeta(list), "ctype", Crimp)]

InitStats ==
    /\ PipelineIdle /\ CliIdle /\ RepeatIdle /\ ExtraIdle
    /\ path = NoPath /\ parsed = NoParse
    /\ specimens \in SeqsUpTo(SpecimenMetas, MaxSpecimens) /\ stats = NoStats

call_calculate_summary_stats ==
    /\ stats = NoStats
    /\ stats' = [kind |-> "dict", d |-> calculate_summary_stats(specimens)]
    /\ UNCHANGED <<path, parsed, specimens>>
    /\ UNCHANGED <<pvars, cvars, rvars, xvars>>

NextStats == call_calculate_summary_stats

SpecStats == InitStats /\ [][NextStats]_vars

(***************************************************************************)
(* _save_individual_results_csv called again and again on one output       *)
(* directory, with _save_multi_results_csv called in between.              *)
(***************************************************************************)
MaxCalls == 3    \* calls of _save_individual_results_csv
MaxRows == 2     \* dicts per call

SaveRows ==
    {<<[k |-> "file", v |-> "a"], [k |-> "group", v |-> "g"]>>,
     <<[k |-> "group", v |-> "h"], [k |-> "note", v |-> "n"]>>}
ResultLists == SeqsUpTo(SaveRows, MaxRows)

InitSave ==
    /\ PipelineIdle /\ CliIdle /\ UtilIdle /\ RepeatIdle /\ ExtraIdle

call_save_individual_results_csv ==
    /\ Len(calls) < MaxCalls
    /\ \E results \in ResultLists :
         LET saved == save_results_csv(outfiles.individual, results)
         IN  /\ outfiles' = [outfiles EXCEPT !.individual = saved.file]
             /\ calls' = Append(calls, [results |-> results, raised |-> saved.raised])
    /\ UNCHANGED <<cpc, args, fsys, cur, data_list, group_results, loaded, status>>
    /\ UNCHANGED <<pvars, uvars, rvars, threads, label>>

call_save_multi_results_csv ==
    /\ Len(outfiles.multi.lines) <= MaxRows
    /\ LET saved == save_results_csv(outfiles.multi, <<MultiResult(<<>>)>>)
       IN  outfiles' = [outfiles EXCEPT !.multi = saved.file]
    /\ UNCHANGED <<cpc, args, fsys, cur, data_list, group_results, loaded, status>>
    /\ UNCHANGED <<pvars, uvars, rvars, xvars>>

NextSave == call_save_individual_results_csv \/ call_save_multi_results_csv

SpecSave == InitSave /\ [][NextSave]_vars

(***************************************************************************)
(* Properties of the per-file pipeline.                                    *)
(***************************************************************************)
\* _find_yield_point has returned (or an exception has left it).
YieldReturned == pc \in {"properties", "done"} \/ (pc = "failed" /\ df # <<>>)
                 \/ (pc = "failed" /\ file.entry = "direct")
MaxStrainOfDf == MaxStrain(df)

\* C3: for a curve with at least one sample no exception leaves
\* _find_yield_point, and what it returns is a non-empty list holding one
\* strain value (a number between 0 and the maximum strain).
C3_YieldAlwaysReturnsValue ==
    (df # <<>> /\ YieldReturned) =>
        /\ err # "yield_detection_raised"
        /\ yp.tier # "none"
        /\ ~yp.nan
        /\ 0 <= yp.value /\ yp.value <= 100 * MaxStrainOfDf

C3_Witness ==
    /\ pc = "done" /\ raised = {"knee", "rolling"} /\ yp.tier = "heuristic"

\* C4: the chain is ordered and the first success wins: an accepted knee is
\* what is returned; the rolling value is returned only when the knee tier
\* accepted nothing; the heuristic value only when neither tier accepted
\* one, and it is 0.65 x max_strain above 0.4 and 0.75 x max_strain at or
\* below 0.4.
C4_KneeOk ==
    /\ knee.kind = "value"
    /\ 15 * Gauge(file) < 100 * knee.x
    /\ 10 * knee.x < 9 * MaxStrainOfDf
C4_RollingOk ==
    /\ rolling.kind = "value"
    /\ 15 * Gauge(file) < 100 * rolling.x
    /\ 10 * rolling.x < 9 * MaxStrainOfDf
C4_OrderedFallbackChain ==
    (df # <<>> /\ YieldReturned) =>
        /\ C4_KneeOk => (yp.tier = "knee" /\ yp.value = 100 * knee.x)
        /\ yp.tier = "knee" => C4_KneeOk
        /\ yp.tier = "rolling" =>
              (knee.kind \in {"none", "raise", "value"} /\ ~C4_KneeOk
               /\ C4_RollingOk /\ yp.value = 100 * rolling.x)
        /\ yp.tier = "heuristic" =>
              /\ knee.kind \in {"none", "raise", "value"} /\ ~C4_KneeOk
              /\ rolling.kind \in {"none", "raise", "value"} /\ ~C4_RollingOk
              /\ yp.value = IF 10 * MaxStrainOfDf > 4 * Gauge(file)
                            THEN 65 * MaxStrainOfDf ELSE 75 * MaxStrainOfDf

\* max_strain is exactly 0.4 and the heuristic returned 0.75 x max_strain.
C4_Witness ==
    /\ pc = "done" /\ yp.tier = "heuristic"
    /\ 10 * MaxStrainOfDf = 4 * Gauge(file)
    /\ yp.value = 75 * MaxStrainOfDf

\* C5: a value returned by the knee tier lies strictly between
\* 0.15 x max_strain and 0.9 x max_strain.
C5_KneeWithinScaledBand ==
    (df # <<>> /\ yp.tier = "knee") =>
        /\ yp.value > 15 * MaxStrainOfDf
        /\ yp.value < 90 * MaxStrainOfDf

\* C6 as stated: after an exception anywhere in yield detection the value
\* returned is exactly 0.7 x max_strain.
C6_AnyExceptionGives70 ==
    (YieldReturned /\ raised # {} /\ yp.tier # "none") =>
        IF df = <<>> THEN yp.nan
        ELSE ~yp.nan /\ yp.value = 70 * MaxStrainOfDf

\* C6 as amended: an exception outside the knee and rolling tiers gives
\* exactly 0.7 x max_strain (nan for a curve without samples); an exception
\* in the knee tier or in the rolling tier is caught there and the chain
\* goes on with the next tier.
C6_ExceptionFallbacks ==
    (YieldReturned /\ yp.tier # "none") =>
        /\ "windowing" \in raised =>
              /\ yp.tier = "outer"
              /\ IF df = <<>> THEN yp.nan
                 ELSE ~yp.nan /\ yp.value = 70 * MaxStrainOfDf
        /\ yp.tier = "outer" => "windowing" \in raised
        /\ "knee" \in raised => yp.tier \in {"rolling", "heuristic"}
        /\ "rolling" \in raised =>
              /\ yp.tier = "heuristic"
              /\ yp.value \in {65 * MaxStrainOfDf, 75 * MaxStrainOfDf}

C6_Witness == yp.tier = "outer" /\ raised = {"windowing"} /\ yp.nan

\* C7: when the focus window holds fewer than 20 samples neither the knee
\* tier nor the rolling tier runs and the value returned is 0.7 x max_strain.
C7_ShortWindowShortCircuits ==
    (df # <<>> /\ Len(FocusWindow(df)) < 20) =>
        /\ knee = Unset /\ rolling = Unset
        /\ yp.tier # "none" => (yp.tier = "short" /\ yp.value = 70 * MaxStrainOfDf)

\* C8: the modulus is fitted over the samples with strain <= yield strain
\* when there are more than 5 of them, otherwise over the first
\* floor(0.2 * max_idx) samples, and over nothing (modulus 0) when that
\* window holds at most one sample.
C8_Elastic == {i \in DOMAIN df : 100 * df[i].Strain <= yp.value}
C8_ModulusFitWindow ==
    (df # <<>> /\ fit.branch # "none") =>
        IF Cardinality(C8_Elastic) > 5
        THEN fit.attempted /\ fit.rows = C8_Elastic
        ELSE /\ fit.rows = 1..((2 * MaxStressIdx(df)) \div 10)
             /\ Cardinality(fit.rows) <= 1 =>
                   (~fit.attempted /\ (pc = "done" => meta.modulus.kind = "zero"))

\* C9: energy and velocity are exactly 0 when at most one sample has
\* strain <= yield strain; otherwise the energy is the trapezoidal integral
\* of stress over strain across exactly those samples and the velocity is
\* sqrt(2 * energy / 0.045).
C9_Sub == {i \in DOMAIN df : 100 * df[i].Strain <= yp.value}
C9_Integral ==
    LET S[i \in 0..Len(df)] ==
            IF i = 0 THEN [sum |-> 0, last |-> 0]
            ELSE LET prev == S[i - 1]
                 IN  IF i \notin C9_Sub THEN prev
                     ELSE IF prev.last = 0 THEN [sum |-> 0, last |-> i]
                     ELSE [sum |-> prev.sum
                                     + (df[i].Strain - df[prev.last].Strain)
                                       * (df[i].Stress + df[prev.last].Stress),
                           last |-> i]
    IN  S[Len(df)].sum
C9_EnergyAndVelocity ==
    pc = "done" =>
        IF Cardinality(C9_Sub) <= 1
        THEN /\ meta.kinetic_energy = [kind |-> "zero", e |-> 0]
             /\ meta.velocity.kind = "zero"
        ELSE /\ meta.kinetic_energy = [kind |-> "trapz", e |-> Sign(file) * C9_Integral]
             /\ meta.velocity =
                  IF Sign(file) * C9_Integral < 0    \* np.sqrt of a negative number
                  THEN [kind |-> "nan", num |-> 0, den |-> 1]
                  ELSE [kind |-> "sqrt", num |-> 127 * Sign(file) * C9_Integral,
                        den |-> 2250]

\* Energy integrated over a proper part of the curve, and not zero.
C9_Witness ==
    /\ pc = "done" /\ meta.kinetic_energy.kind = "trapz"
    /\ meta.kinetic_energy.e > 0
    /\ Cardinality(C9_Sub) < Len(df)

\* C10: yield_stress is the maximum of the Stress column and max_force the
\* maximum of the Force column, whatever tier gave the yield strain and
\* whatever branch gave the modulus.
C10_YieldStressIsMaxStress ==
    pc = "done" =>
        /\ \A i \in DOMAIN df : df[i].Stress <= meta.yield_stress
        /\ \E i \in DOMAIN df : df[i].Stress = meta.yield_stress
        /\ \A i \in DOMAIN df : df[i].Force <= meta.max_force
        /\ \E i \in DOMAIN df : df[i].Force = meta.max_force

\* The rolling tier gave the yield strain, the elastic branch the modulus,
\* and the stress at the yield point is below the maximum stress.
C10_Witness ==
    /\ pc = "done" /\ yp.tier = "rolling" /\ fit.branch = "elastic"
    /\ meta.yield_point_stress < meta.yield_stress


(***************************************************************************)
(* Properties of the command line.                                         *)
(***************************************************************************)
BatchRan ==
    /\ cpc = "exit" /\ args.parse_ok /\ args.command = "batch"
    /\ fsys.output_ok /\ fsys.data_dir_exists /\ fsys.plots_ok

\* C1: in batch processing a load error in one CSV file does not stop its
\* siblings: when the batch command has ended, every loadable CSV file under
\* the group_*/*in directories has been loaded and its (group, length) has a
\* summary.
C1_SiblingsStillProcessed ==
    BatchRan =>
        \A d \in DOMAIN fsys.dirs : \A f \in DOMAIN fsys.dirs[d] :
            Loads(fsys.dirs[d][f]) =>
                /\ <<d, f>> \in loaded
                /\ \E r \in group_results : r.key = DirKeys[d]

\* The errors the run meets, read off the inputs alone.
SetupFails == ~args.parse_ok \/ ~fsys.output_ok
UnknownCommand == args.command \notin {"analyze", "visualize", "batch"}
BatchFails ==
    \/ ~fsys.data_dir_exists
    \/ \E d \in DOMAIN fsys.dirs :
          \/ \E f \in DOMAIN fsys.dirs[d] : ~Loads(fsys.dirs[d][f])
          \/ fsys.dirs[d] # <<>> /\ ~fsys.plots_ok
AnalyzeFails ==
    \/ \E f \in DOMAIN args.input : ~Loads(args.input[f])
    \/ ~fsys.plots_ok
VisualizeFails ==
    \/ \E f \in DOMAIN args.input : args.input[f].kind # "ok"
    \/ ~fsys.plots_ok
ErrorMet ==
    \/ SetupFails
    \/ UnknownCommand
    \/ args.command = "batch" /\ BatchFails
    \/ args.command = "analyze" /\ AnalyzeFails
    \/ args.command = "visualize" /\ VisualizeFails

Produced == file.entry = "load_file" /\ df # <<>>

\* C11: every curve load_file produces is zero-floored: the minimum of the
\* Stress column and the minimum of the Strain column are exactly 0.
C11_ZeroFloored ==
    Produced =>
        /\ \A i \in DOMAIN df : df[i].Stress >= 0
        /\ \E i \in DOMAIN df : df[i].Stress = 0
        /\ \A i \in DOMAIN df : df[i].Strain >= 0
        /\ \E i \in DOMAIN df : df[i].Strain = 0

\* C15: every specimen load_file returns, whatever the file name and the
\* directory path, has meta.size > 0 and meta.length > 0.
C15_PositiveSizeAndLength ==
    (pc = "done" /\ file.entry = "load_file" /\ ~file.mock.set) =>
        /\ Meta(file).size > 0
        /\ Meta(file).length > 0

\* load_file came as far as the transform (lines 86-94).
AtTransform ==
    /\ file.entry = "load_file" /\ pc # "start" /\ file.kind = "ok"
    /\ err \notin {"invalid_name", "invalid_force", "invalid_stroke", "no_valid_rows"}

C17_Missing(mask) == Cardinality({i \in DOMAIN file.rows : file.rows[i][mask]})
C17_Complete ==
    {i \in DOMAIN file.rows : ~file.rows[i].ForceNa /\ ~file.rows[i].StrokeNa}

\* C17: load_file fails with an invalid-data error exactly when more than
\* half of the Force values or more than half of the Stroke values are
\* missing (half is accepted); otherwise the rows with a missing value are
\* dropped before the transform, and load_file fails with an empty-data
\* error when no row is left.
C17_MissingValues ==
    (file.entry = "load_file" /\ pc # "start" /\ file.kind = "ok"
       /\ Meta(file).kind = "meta") =>
        /\ err \in {"invalid_force", "invalid_stroke"}
              <=> \/ 2 * C17_Missing("ForceNa") > Len(file.rows)
                  \/ 2 * C17_Missing("StrokeNa") > Len(file.rows)
        /\ err = "no_valid_rows"
              <=> /\ 2 * C17_Missing("ForceNa") <= Len(file.rows)
                  /\ 2 * C17_Missing("StrokeNa") <= Len(file.rows)
                  /\ C17_Complete = {}
        /\ df # <<>> => {df[i].label : i \in DOMAIN df} = C17_Complete

\* Exactly half of the Force values are missing and the file is loaded.
C17_Witness ==
    /\ pc = "done" /\ file.entry = "load_file"
    /\ 2 * C17_Missing("ForceNa") = Len(file.rows)
    /\ Len(df) = Cardinality(C17_Complete) /\ Len(df) < Len(file.rows)

(***************************************************************************)
(* Properties of _parse_metadata and _parse_length.                        *)
(***************************************************************************)
\* C12: _parse_metadata never raises, however malformed the file name is,
\* and returns a record with size, ctype, test_run and length.
C12_ParseNeverRaises ==
    parsed # NoParse =>
        /\ parsed.kind = "meta"
        /\ {"size", "ctype", "test_run", "length"} \subseteq DOMAIN parsed

\* A name whose pieces read back as they were put: no part is empty.
C13_WellFormed ==
    \A i \in DOMAIN path.name.parts : path.name.parts[i].text # <<>>
C13_Sized == path.name.nsegs >= 3 /\ Len(path.name.parts) >= 3

\* C13: for <prefix>--<tag>-<construction>-<diameter>--<run>.csv the size is
\* the integer of the 3rd part of the middle segment, ctype its 2nd part and
\* test_run the integer before the first "." of the 3rd segment; fewer than
\* three segments or fewer than three parts give size 21 and ctype "crimp";
\* a missing or unparsable run gives test_run 0.
C13_NameFields ==
    (parsed # NoParse /\ C13_WellFormed) =>
        /\ (C13_Sized /\ path.name.parts[3].int) =>
              /\ parsed.kind = "meta"
              /\ parsed.size = path.name.parts[3].val
              /\ parsed.ctype = path.name.parts[2].text
        /\ ~C13_Sized =>
              /\ parsed.kind = "meta"
              /\ parsed.size = 21
              /\ parsed.ctype = <<"c", "r", "i", "m", "p">>
        /\ parsed.kind = "meta" =>
              parsed.test_run =
                 IF path.name.nsegs >= 3 THEN path.name.runtok.val ELSE 0

\* Diameter "07" read as 7, construction "x9", run 12 from a 3rd segment
\* without a ".".
C13_Witness ==
    /\ parsed # NoParse /\ C13_WellFormed /\ C13_Sized
    /\ parsed.kind = "meta" /\ parsed.size = 7
    /\ parsed.ctype = <<"x", "9">> /\ parsed.test_run = 12

\* The length a reader takes from the components: the first one that ends
\* with "in", holds a digit and has an integer before the suffix.
RECURSIVE C14_Expected(_)
C14_Expected(dirs) ==
    IF dirs = <<>> THEN 2540
    ELSE IF Head(dirs).suffix /\ Head(dirs).ok THEN 254 * Head(dirs).val
    ELSE C14_Expected(Tail(dirs))

\* C14: the gauge length comes from the first directory component that ends
\* with "in" and contains a digit, as inches x 25.4 mm; a component that does
\* not end with "in" never determines it; without such a component it is
\* 254.0 mm.
C14_LengthFromSuffixIn ==
    (parsed # NoParse /\ parsed.kind = "meta") =>
        parsed.length = C14_Expected(path.dirs)


(***************************************************************************)
(* Properties of calculate_summary_stats.                                  *)
(***************************************************************************)
C18_Carriers(attr) == {i \in DOMAIN specimens : attr \in DOMAIN specimens[i]}

\* Sum of the p-th powers of the attribute over the specimens that carry it.
RECURSIVE C18_Sum(_, _, _)
C18_Sum(attr, p, n) ==
    IF n = 0 THEN 0
    ELSE C18_Sum(attr, p, n - 1)
           + (IF n \in C18_Carriers(attr)
              THEN (IF p = 1 THEN specimens[n][attr]
                    ELSE specimens[n][attr] * specimens[n][attr])
              ELSE 0)

\* avg = S1 / n and std^2 = (n * S2 - S1^2) / n^2 over the n carriers.
C18_Attr(attr, avg, var) ==
    LET n == Cardinality(C18_Carriers(attr))
        S1 == C18_Sum(attr, 1, Len(specimens))
        S2 == C18_Sum(attr, 2, Len(specimens))
    IN  IF n = 0 THEN avg.num = 0 /\ var.num = 0
        ELSE /\ avg.num * n = avg.den * S1
             /\ var.num * n * n = var.den * (n * S2 - S1 * S1)

\* C18: for modulus, yield_stress and max_force the mean and the population
\* standard deviation are taken over exactly the specimens that carry the
\* attribute, are 0 when none does, and sample_count counts every specimen.
C18_StatsOverCarriers ==
    (stats # NoStats /\ specimens # <<>>) =>
        /\ stats.d.sample_count = Len(specimens)
        /\ C18_Attr("modulus", stats.d.modulus_avg, stats.d.modulus_var)
        /\ C18_Attr("yield_stress", stats.d.yield_stress_avg, stats.d.yield_stress_var)
        /\ C18_Attr("max_force", stats.d.max_force_avg, stats.d.max_force_var)

\* Three specimens, two of them carry a modulus, and the two values differ.
C18_Witness ==
    /\ stats # NoStats /\ Len(specimens) = 3
    /\ Cardinality(C18_Carriers("modulus")) = 2
    /\ stats.d.modulus_var.num > 0
    /\ C18_Carriers("yield_stress") = {}

C19_Default(attr, default) ==
    IF attr \in DOMAIN specimens[1] THEN specimens[1][attr] ELSE default

\* C19: an empty list gives an empty record; otherwise length, size and
\* ctype are those of the first specimen, 254.0, 21 and "crimp" where it
\* lacks them, whatever later specimens carry.
C19_FirstSpecimenMeta ==
    stats # NoStats =>
        IF specimens = <<>> THEN DOMAIN stats.d = {}
        ELSE /\ stats.d.length = C19_Default("length", 2540)
             /\ stats.d.size = C19_Default("size", 21)
             /\ stats.d.ctype = C19_Default("ctype", <<"c", "r", "i", "m", "p">>)

\* The first specimen lacks length, size and ctype, a later one has them.
C19_Witness ==
    /\ stats # NoStats /\ Len(specimens) >= 2
    /\ DOMAIN specimens[1] = {"max_force"}
    /\ {"length", "size", "ctype"} \subseteq DOMAIN specimens[2]
    /\ stats.d.length = 2540 /\ stats.d.size = 21


C21_Passed ==
    LET F[i \in 0..Len(calls)] ==
            IF i = 0 THEN <<>> ELSE F[i - 1] \o calls[i].results
    IN  F[Len(calls)]

\* The cell of the r-th row line of individual_results.csv under a column.
C21_Cell(r, key) ==
    LET L == outfiles.individual.lines
    IN  IF \E c \in DOMAIN L[1] : L[1][c] = key
        THEN L[r + 1][CHOOSE c \in DOMAIN L[1] : L[1][c] = key]
        ELSE "no such column"

C21_HoldsEveryRow ==
    /\ outfiles.individual.exists
    /\ Len(outfiles.individual.lines) = 1 + Len(C21_Passed)
    /\ \A r \in DOMAIN C21_Passed : \A i \in DOMAIN C21_Passed[r] :
          C21_Cell(r, C21_Passed[r][i].k) = C21_Passed[r][i].v

C22_Recording ==
    /\ file.entry = "load_file" /\ file.kind = "ok" /\ ~file.mock.set
    /\ file.layout \in {"preamble", "header_first"}
    /\ file.rows # <<>>
    /\ \A i \in DOMAIN file.rows : ~file.rows[i].ForceNa /\ ~file.rows[i].StrokeNa
    /\ file.path = FilePath(5, 21)

\* C22: load_file accepts a file that begins with the line of column names
\* and a file with one more line before it: in both cases it gives a table
\* whose rows are the data lines, the units line not among them.
C22_BothLayoutsLoad ==
    (C22_Recording /\ pc # "start") =>
        /\ err \notin {"missing_columns", "empty_csv"}
        /\ Len(df) = Len(file.rows)
        /\ \A i \in DOMAIN df :
              df[i].Force = file.rows[i].Force /\ df[i].Stroke = file.rows[i].Stroke

(***************************************************************************)
(* Properties of concurrent load_file calls.                               *)
(***************************************************************************)
C23_Finished(t) == threads.call[t].pc \in {"done", "failed"}

C24_Dir(key) == CHOOSE d \in DOMAIN DirKeys : DirKeys[d] = key

\* C24: calculate_summary_stats for a (group, length) directory is invoked
\* only after load_file has returned for every CSV file of that directory,
\* and its sample_count is the number of CSV files in the directory.
C24_JoinBeforeAggregate ==
    \A r \in group_results :
        /\ \E d \in DOMAIN DirKeys : DirKeys[d] = r.key
        /\ r.stats.sample_count = Len(fsys.dirs[C24_Dir(r.key)])
        /\ \A f \in DOMAIN fsys.dirs[C24_Dir(r.key)] :
              /\ <<C24_Dir(r.key), f>> \in loaded
              /\ LoadError(fsys.dirs[C24_Dir(r.key)][f]) = "none"

\* The first directory, of two files, has its summary while the second is
\* still being loaded.
C24_Witness ==
    /\ cpc = "batch_dir" /\ cur.d = 2 /\ cur.f = 2
    /\ Len(fsys.dirs[1]) = 2 /\ Len(fsys.dirs[2]) = 2
    /\ \E r \in group_results : r.key = DirKeys[1] /\ r.stats.sample_count = 2

(***************************************************************************)
(* Properties of the plausibility band and of the rolling-modulus tier.    *)
(***************************************************************************)
\* 0.15 < x / length < 0.9 * max_strain, for a strain numerator x.
C25_InBand(x) ==
    /\ 15 * Gauge(file) < 100 * x
    /\ 100 * x < 90 * MaxStrainOfDf

C26_Half(w) == IF Len(w) \div 20 > 5 THEN Len(w) \div 20 ELSE 5
\* The local slopes of window w, one for each point that has a full window
\* of 2 * half samples around it.
C26_Slopes(w) ==
    [j \in 1..(Len(w) - 2 * C26_Half(w)) |->
        PolyfitSlope(SubSeq(w, j, j + 2 * C26_Half(w) - 1))]
\* What the tier returns for window w according to the statement.
C26_Expected(w) ==
    LET half == C26_Half(w)
        moduli == C26_Slopes(w)
        sum5 == RatAdd(RatAdd(RatAdd(RatAdd(moduli[1], moduli[2]), moduli[3]),
                              moduli[4]), moduli[5])
        drops == {j \in DOMAIN moduli :
                     50 * moduli[j].num * sum5.den < 7 * sum5.num * moduli[j].den}
    IN  IF \E j \in DOMAIN moduli : moduli[j].kind # "ratio"
        THEN [kind |-> "undefined", x |-> 0]
        ELSE IF drops = {} THEN [kind |-> "none", x |-> 0]
        ELSE [kind |-> "value",
              x |-> w[half + (CHOOSE j \in drops : \A i \in drops : j <= i)].Strain]

\* The rolling-modulus tier ran on a window of at least n samples and the
\* statement's candidate is `expected'.
C26_Holds(n) ==
    (df # <<>> /\ rolling # Unset /\ Len(FocusWindow(df)) >= n) =>
        LET expected == C26_Expected(FocusWindow(df))
        IN  expected.kind # "undefined" =>
              /\ rolling = expected
              /\ (expected.kind = "value" /\ C25_InBand(expected.x)
                    /\ pc \in {"properties", "done"}) =>
                       (yp.tier = "rolling" /\ yp.value = 100 * expected.x)

C27_Position == MinOf({i \in DOMAIN df : df[i].Stress = MaxStress(df)}) - 1

\* C27: the max_idx used for the focus window and for the modulus fallback's
\* first-20% window equals the zero-based position of the first
\* maximum-stress sample within the cleaned curve, for every loaded file.
C27_MaxIdxIsPosition ==
    (df # <<>> /\ pc # "start" /\ file.entry # "direct") =>
        MaxStressIdx(df) = C27_Position

\* C28: for every specimen load_file returns, kinetic_energy >= 0 and
\* velocity is a defined non-negative real number, also when the Stroke
\* values are not increasing in acquisition order.
C28_EnergyNonNegative ==
    (pc = "done" /\ file.entry = "load_file") =>
        /\ meta.kinetic_energy.e >= 0
        /\ meta.velocity.kind \in {"zero", "sqrt"}
        /\ meta.velocity.num >= 0

\* The result files as one of the two starting file systems has them.
C29_Untouched ==
    outfiles \in {NoOutfiles,
                  [NoOutfiles EXCEPT !.individual = OldFile, !.multi = OldFile]}

\* C29: a failed analyze run leaves the result files untouched: whenever
\* handle_analyze_command returns 1, in single or multi mode, neither
\* individual_results.csv nor multi_run_averages.csv has been created or
\* changed by that invocation.
C29_FailedAnalyzeWritesNothing ==
    (cpc = "exit" /\ args.parse_ok /\ args.command = "analyze" /\ status = "1") =>
        C29_Untouched

\* The label reads "<n>in" with an integer n.
C30_Inches == PyInt(SubSeq(label.text, 1, Len(label.text) - 2))

\* C30: the analyzer and the visualizer agree on a file's gauge length for
\* every path: whenever _extract_length_from_path returns a label "<n>in"
\* with integer n, _parse_metadata gives length n x 25.4, and whenever the
\* label is "unknown_length" the analyzer gives the default 254.0.
C30_LabelAgreesWithLength ==
    (label # NoLabel /\ parsed # NoParse /\ parsed.kind = "meta") =>
        /\ (label.kind = "part" /\ C30_Inches.ok) =>
               parsed.length = C30_Inches.val * MmPerInch
        /\ label.kind = "unknown_length" => parsed.length = DefaultLength

====
